---- MODULE Spec2Model ----
(***************************************************************************)
(* flow.js: serial task sequencing with counter based fan-out.             *)
(*                                                                         *)
(* A model of src/flow.js.  A sequence object built by flow() creates one  *)
(* SerialManager per call; every dispatched task gets a fresh              *)
(* ControlHelper.  JavaScript is single threaded, so every call of the     *)
(* public API (the sequence object, set, inc, tick, next, setBaggage) is   *)
(* one atomic action, including every dispatch it causes synchronously.    *)
(* What the task functions do with their controller is the environment.    *)
(***************************************************************************)
EXTENDS Integers, Sequences, FiniteSets, TLC

(***************************************************************************)
(* Bounds of the model.                                                    *)
(***************************************************************************)
MaxCtl == 7      \* ControlHelper instances (= dispatches) per behaviour
MaxMgr == 2      \* SerialManager instances (= runs) per behaviour
MaxCount == 2    \* largest counter value
MaxBuf == 4      \* longest pending errors/results buffer
MaxCalls == 4    \* API calls per behaviour

(***************************************************************************)
(* JavaScript values.  Every value is a record of the same shape so that   *)
(* any two values can be compared: k is the kind, s the payload of a       *)
(* string, n the payload of a number (or the id of a controller), a the    *)
(* elements of an array.  A hole of a sparse array reads as undefined.     *)
(***************************************************************************)
Undef == [k |-> "undefined", s |-> "", n |-> 0, a |-> <<>>]
Null == [k |-> "null", s |-> "", n |-> 0, a |-> <<>>]
Str(x) == [k |-> "string", s |-> x, n |-> 0, a |-> <<>>]
Num(i) == [k |-> "number", s |-> "", n |-> i, a |-> <<>>]
Arr(q) == [k |-> "array", s |-> "", n |-> 0, a |-> q]
CtlObj(c) == [k |-> "ControlHelper", s |-> "", n |-> c, a |-> <<>>]

\* An object of the user, told from others by its name.
Obj(x) == [k |-> "object", s |-> x, n |-> 0, a |-> <<>>]

\* ToBoolean of a value: undefined, null, 0 and "" are falsy.
Truthy(v) ==
    CASE v.k = "undefined" -> FALSE
      [] v.k = "null" -> FALSE
      [] v.k = "number" -> v.n # 0
      [] v.k = "string" -> v.s # ""
      [] OTHER -> TRUE

\* v is null or undefined.
NoError(v) == v.k \in {"null", "undefined"}

\* Mutant: the empty items are removed from the array.
compact_filter(arr) ==
    IF \A i \in 1..Len(arr) : NoError(arr[i])
    THEN Null
    ELSE Arr(SelectSeq(arr, LAMBDA a : ~NoError(a)))

\* Mutant: the items that are not truthy count as empty.
compact_truthy(arr) ==
    IF \A i \in 1..Len(arr) : ~Truthy(arr[i])
    THEN Null
    ELSE Arr(arr)

\* If all items of the array are null or undefined, null; else the array.
compact(arr) ==
    IF \A i \in 1..Len(arr) : NoError(arr[i])
    THEN Null
    ELSE Arr(arr)

\* n holes of a sparse array.
RECURSIVE Holes(_)
Holes(n) == IF n <= 0 THEN <<>> ELSE Append(Holes(n - 1), Undef)

\* arr[index] = v on a JavaScript array (index counted from 0).
WriteAt(arr, index, v) ==
    IF index < Len(arr)
    THEN [arr EXCEPT ![index + 1] = v]
    ELSE Append(arr \o Holes(index - Len(arr)), v)

(***************************************************************************)
(* Sequence objects.  A callback is "fn" (a task function of the user),    *)
(* "seq" (the sequence object number ref, used as a task) or "cb" (the     *)
(* completion callback that execute() appends; parallelMgr is the          *)
(* controller captured by its closure, 0 for null).  "throw" is a task     *)
(* function of the user that throws before it calls anything.              *)
(***************************************************************************)
Fn == [kind |-> "fn", ref |-> 0, parallelMgr |-> 0]
SeqTask(d) == [kind |-> "seq", ref |-> d, parallelMgr |-> 0]
Cb(p) == [kind |-> "cb", ref |-> 0, parallelMgr |-> p]
Throw == [kind |-> "throw", ref |-> 0, parallelMgr |-> 0]

\* An option is "undefined" (absent), "true" or "false".
Tri == {"undefined", "true", "false"}
NoOptions == [tolerance |-> "undefined", repeat |-> "undefined"]

\* An argument of flow() that is an object: a config with its tolerance and
\* repeat properties, or a scope.
ObjArg(t, r, name) ==
    [kind |-> "object", tolerance |-> t, repeat |-> r, name |-> name]

\* flow(arguments): the callbacks and options that the returned function
\* keeps.  A leading object is the options, a trailing object becomes
\* options.scope.
flow(arguments) ==
    LET hasOptions == arguments # <<>> /\ arguments[1].kind = "object"
        shifted == IF hasOptions THEN Tail(arguments) ELSE arguments
        options == IF hasOptions
                   THEN [tolerance |-> arguments[1].tolerance,
                         repeat |-> arguments[1].repeat, scope |-> Undef]
                   ELSE [tolerance |-> "undefined", repeat |-> "undefined",
                         scope |-> Undef]
        hasScope == shifted # <<>> /\ shifted[Len(shifted)].kind = "object"
    IN  IF hasScope
        THEN [callbacks |-> SubSeq(shifted, 1, Len(shifted) - 1),
              options |-> [options EXCEPT
                              !.scope = Obj(shifted[Len(shifted)].name)]]
        ELSE [callbacks |-> shifted, options |-> options]

VARIABLES
    seqs,     \* the sequence objects built by flow(): callbacks and options
    mgrs,     \* the SerialManager instances, in order of creation
    ctls,     \* the ControlHelper instances, in order of creation
    units,    \* the completion functions made by oneTimeUse, in order
    log,      \* history: one entry per dispatched callback
    fired,    \* history: the controllers that have called SerialManager.next
    hist,     \* history: per controller, the calls a disciplined task made
    calls     \* history: the number of API calls made so far

vars == <<seqs, mgrs, ctls, units, log, fired, hist, calls>>

\* The state the code works on, with the history it leaves.
State ==
    [mgrs |-> mgrs, ctls |-> ctls, units |-> units, log |-> log,
     fired |-> fired]

(***************************************************************************)
(* SerialManager                                                           *)
(***************************************************************************)
\* SerialManager.prototype.set
Mgr_set(M, options) ==
    LET M1 == IF options.tolerance # "undefined"
              THEN [M EXCEPT !.tolerance = (options.tolerance = "true")]
              ELSE M
    IN  IF options.repeat \in {"true", "false"}
        THEN [M1 EXCEPT !.repeatNext = (options.repeat = "true")]
        ELSE M1

\* new SerialManager(callbacks, options); the untouched fields are the
\* prototype's: repeatNext false, repeatCount 0, tolerance 0, scope null.
SerialManager(callbacks, options) ==
    Mgr_set([callbacks |-> callbacks,
             lastArgs |-> <<Undef, Undef>>,
             errors |-> <<>>,
             results |-> <<>>,
             currentFunc |-> -1,
             repeatNext |-> FALSE,
             repeatCount |-> 0,
             tolerance |-> FALSE,
             scope |-> Null], options)

\* Mutant: the index is ignored, every pair is appended.
Mgr_store_push(M, error, result, index) ==
    [M EXCEPT !.results = Append(@, result), !.errors = Append(@, error)]

\* SerialManager.prototype.store
Mgr_store(M, error, result, index) ==
    IF index.k = "number"
    THEN [M EXCEPT !.results = WriteAt(@, index.n, result),
                   !.errors = WriteAt(@, index.n, error)]
    ELSE [M EXCEPT !.results = Append(@, result),
                   !.errors = Append(@, error)]

\* Mutant: the counter of a new controller starts at 1.
ControlHelper_countOne(m, tolerance) ==
    [manager |-> m, tolerance |-> tolerance, count |-> 1, baggage |-> Null,
     repeatCount |-> 0]

\* Mutant: every controller works on the first manager.
ControlHelper_firstMgr(m, tolerance) ==
    [manager |-> 1, tolerance |-> tolerance, count |-> 0, baggage |-> Null,
     repeatCount |-> 0]

\* Mutant: a new controller starts with a baggage.
ControlHelper_bagged(m, tolerance) ==
    [manager |-> m, tolerance |-> tolerance, count |-> 0,
     baggage |-> Str("b1"), repeatCount |-> 0]

\* new ControlHelper({manager: m, tolerance: tolerance})
ControlHelper(m, tolerance) ==
    [manager |-> m, tolerance |-> tolerance, count |-> 0, baggage |-> Null,
     repeatCount |-> 0]

\* Mutant: the tolerance does not count for the repeat decision.
RepeatDecision_ignoreTolerance(M, errs) == M.repeatNext /\ ~Truthy(errs)

\* Mutant: a repeat request is honoured whatever errors are pending.
RepeatDecision_always(M, errs) == M.repeatNext

\* Mutant: a repeat request is ignored.
RepeatDecision_never(M, errs) == FALSE

\* The repeat decision of SerialManager.prototype.next.
RepeatDecision(M, errs) ==
    M.repeatNext /\ (M.tolerance \/ (~M.tolerance /\ ~Truthy(errs)))

RECURSIVE Mgr_next(_, _, _, _, _)
RECURSIVE Apply(_, _, _, _, _, _)
RECURSIVE flowCall(_, _, _, _, _, _)
RECURSIVE Ctl_next(_, _, _, _)

\* Mutant: the buffers are emptied on a repeat as well.
Mgr_next_clearOnRepeat(S, m, error, result, baggage) ==
    LET M0 == S.mgrs[m]
        push == error.k # "undefined" \/ result.k # "undefined"
        errors1 == IF push THEN Append(M0.errors, error) ELSE M0.errors
        results1 == IF push THEN Append(M0.results, result) ELSE M0.results
        errs0 == compact(errors1)
        rep == RepeatDecision(M0, errs0)
        errs == IF rep THEN M0.lastArgs[1] ELSE errs0
        res == IF rep THEN M0.lastArgs[2] ELSE Arr(results1)
        M1 == IF rep
              THEN [M0 EXCEPT !.errors = <<>>, !.results = <<>>,
                              !.repeatCount = @ + 1, !.repeatNext = FALSE]
              ELSE [M0 EXCEPT !.errors = <<>>, !.results = <<>>,
                              !.currentFunc = @ + 1,
                              !.repeatCount = 0, !.repeatNext = FALSE]
        f == M1.currentFunc
    IN  IF f >= 0 /\ f < Len(M1.callbacks)
        THEN LET M2 == [M1 EXCEPT !.lastArgs = <<errs, res>>]
                 c == Len(S.ctls) + 1
                 mgr == [ControlHelper(m, M2.tolerance)
                            EXCEPT !.repeatCount = M2.repeatCount]
                 S1 == [S EXCEPT
                          !.mgrs = [@ EXCEPT ![m] = M2],
                          !.ctls = Append(@, mgr),
                          !.log = Append(@,
                              [mgr |-> m, func |-> f, ctl |-> c,
                               kind |-> M2.callbacks[f + 1].kind,
                               this |-> M2.scope,
                               errs |-> errs, res |-> res,
                               baggage |-> baggage,
                               repeatCount |-> M2.repeatCount, by |-> 0])]
             IN  Apply(S1, M2.callbacks[f + 1], CtlObj(c), errs, res, baggage)
        ELSE [S EXCEPT !.mgrs = [@ EXCEPT ![m] = M1]]

\* SerialManager.prototype.next
Mgr_next(S, m, error, result, baggage) ==
    LET M0 == S.mgrs[m]
        push == error.k # "undefined" \/ result.k # "undefined"
        errors1 == IF push THEN Append(M0.errors, error) ELSE M0.errors
        results1 == IF push THEN Append(M0.results, result) ELSE M0.results
        errs0 == compact(errors1)
        rep == RepeatDecision(M0, errs0)
        errs == IF rep THEN M0.lastArgs[1] ELSE errs0
        res == IF rep THEN M0.lastArgs[2] ELSE Arr(results1)
        M1 == IF rep
              THEN [M0 EXCEPT !.errors = errors1, !.results = results1,
                              !.repeatCount = @ + 1, !.repeatNext = FALSE]
              ELSE [M0 EXCEPT !.errors = <<>>, !.results = <<>>,
                              !.currentFunc = @ + 1,
                              !.repeatCount = 0, !.repeatNext = FALSE]
        f == M1.currentFunc
    IN  IF f >= 0 /\ f < Len(M1.callbacks)
        THEN LET M2 == [M1 EXCEPT !.lastArgs = <<errs, res>>]
                 c == Len(S.ctls) + 1
                 mgr == [ControlHelper(m, M2.tolerance)
                            EXCEPT !.repeatCount = M2.repeatCount]
                 S1 == [S EXCEPT
                          !.mgrs = [@ EXCEPT ![m] = M2],
                          !.ctls = Append(@, mgr),
                          !.log = Append(@,
                              [mgr |-> m, func |-> f, ctl |-> c,
                               kind |-> M2.callbacks[f + 1].kind,
                               this |-> M2.scope,
                               errs |-> errs, res |-> res,
                               baggage |-> baggage,
                               repeatCount |-> M2.repeatCount, by |-> 0])]
             IN  Apply(S1, M2.callbacks[f + 1], CtlObj(c), errs, res, baggage)
        ELSE [S EXCEPT !.mgrs = [@ EXCEPT ![m] = M1]]

\* Mutant: an exception of a task is caught, recorded as an error, and the
\* manager moves on.
Apply_catch(S, callback, a1, a2, a3, a4) ==
    CASE callback.kind = "fn" -> S
      [] callback.kind = "throw" ->
            Mgr_next(S, S.ctls[a1.n].manager, Str("thrown"), Undef, Null)
      [] callback.kind = "seq" -> flowCall(S, callback.ref, a1, a2, a3, a4)
      [] callback.kind = "cb" ->
            IF callback.parallelMgr # 0
            THEN Ctl_next(
                    [S EXCEPT !.ctls[callback.parallelMgr].baggage = a3],
                    callback.parallelMgr, a1, a2)
            ELSE S

\* callbacks[currentFunc].apply(scope, [mgr, errs, res, baggage]).  The
\* call is the last statement of next(), as the call of manager.next is of
\* ControlHelper.next, the call of this.next of tick, and the call of
\* execute of the function flow() returns, and none of them is inside a
\* try block: an exception of the task unwinds all of them, and the state
\* the API call leaves is the state at the throw.
Apply(S, callback, a1, a2, a3, a4) ==
    CASE callback.kind = "fn" -> S
      [] callback.kind = "throw" -> S
      [] callback.kind = "seq" -> flowCall(S, callback.ref, a1, a2, a3, a4)
      [] callback.kind = "cb" ->
            \* function (errors, results, baggage) of flow(): its three
            \* parameters are the first three arguments it is applied to.
            IF callback.parallelMgr # 0
            THEN Ctl_next(
                    [S EXCEPT !.ctls[callback.parallelMgr].baggage = a3],
                    callback.parallelMgr, a1, a2)
            ELSE S

\* Mutant: the first argument is never taken for a controller.
flowArgs_neverCtl(parallelMgr, errorsParent, resultsParent, baggageParent) ==
    <<0, parallelMgr, errorsParent, resultsParent>>

\* The parameters of the function flow() returns, after its test of
\* parallelMgr instanceof ControlHelper: <<parallelMgr (0 for null),
\* errorsParent, resultsParent, baggageParent>>.
flowArgs(parallelMgr, errorsParent, resultsParent, baggageParent) ==
    IF parallelMgr.k = "ControlHelper"
    THEN <<parallelMgr.n, errorsParent, resultsParent, baggageParent>>
    ELSE <<0, parallelMgr, errorsParent, resultsParent>>

\* The function flow() returns, called with (parallelMgr, errorsParent,
\* resultsParent, baggageParent); d is the sequence object called.
flowCall(S, d, parallelMgr, errorsParent, resultsParent, baggageParent) ==
    LET args == flowArgs(parallelMgr, errorsParent, resultsParent,
                         baggageParent)
        m == Len(S.mgrs) + 1
        manager == SerialManager(seqs[d].callbacks, seqs[d].options)
        \* execute(): callbacks.push(cb); next(err, result, baggage)
        M == [manager EXCEPT !.callbacks = Append(@, Cb(args[1]))]
    IN  Mgr_next([S EXCEPT !.mgrs = Append(@, M)], m,
                 args[2], args[3], args[4])

(***************************************************************************)
(* ControlHelper                                                           *)
(***************************************************************************)
\* Mutant: next advances the manager whatever the counter is.
Ctl_next_always(S, c, error, result) ==
    LET C0 == S.ctls[c]
        C1 == IF ~C0.tolerance /\ Truthy(error)
              THEN [C0 EXCEPT !.count = 0]
              ELSE C0
        S1 == [S EXCEPT !.ctls[c] = C1]
    IN  Mgr_next([S1 EXCEPT !.fired = @ \cup {c}],
                 C1.manager, error, result, C1.baggage)

\* Mutant: next does not pass the result on.
Ctl_next_dropResult(S, c, error, result) ==
    LET C0 == S.ctls[c]
        C1 == IF ~C0.tolerance /\ Truthy(error)
              THEN [C0 EXCEPT !.count = 0]
              ELSE C0
        S1 == [S EXCEPT !.ctls[c] = C1]
    IN  IF C1.count = 0
        THEN Mgr_next([S1 EXCEPT !.fired = @ \cup {c}],
                      C1.manager, error, Undef, C1.baggage)
        ELSE S1

\* ControlHelper.prototype.next
Ctl_next(S, c, error, result) ==
    LET C0 == S.ctls[c]
        C1 == IF ~C0.tolerance /\ Truthy(error)
              THEN [C0 EXCEPT !.count = 0]
              ELSE C0
        S1 == [S EXCEPT !.ctls[c] = C1]
    IN  IF C1.count = 0
        THEN Mgr_next([S1 EXCEPT !.fired = @ \cup {c}],
                      C1.manager, error, result, C1.baggage)
        ELSE S1

\* Mutant: set hands the tolerance on to the manager.
Ctl_set_keepTolerance(S, c, config) ==
    LET C0 == S.ctls[c]
        C1 == IF config.count.k = "number" /\ config.count.n > 0
              THEN [C0 EXCEPT !.count = config.count.n]
              ELSE C0
        C2 == IF config.tolerance # "undefined"
              THEN [C1 EXCEPT !.tolerance = (config.tolerance = "true")]
              ELSE C1
    IN  [S EXCEPT !.ctls[c] = C2,
                  !.mgrs[C0.manager] = Mgr_set(@, config)]

\* ControlHelper.prototype.set, in both of its forms: set(count, repeat,
\* tolerance) builds the config that set(config) is given.
Ctl_set(S, c, config) ==
    LET C0 == S.ctls[c]
        C1 == IF config.count.k = "number" /\ config.count.n > 0
              THEN [C0 EXCEPT !.count = config.count.n]
              ELSE C0
        C2 == IF config.tolerance # "undefined"
              THEN [C1 EXCEPT !.tolerance = (config.tolerance = "true")]
              ELSE C1
        \* delete config.tolerance
        config1 == [config EXCEPT !.tolerance = "undefined"]
    IN  [S EXCEPT !.ctls[c] = C2,
                  !.mgrs[C0.manager] = Mgr_set(@, config1)]

\* ControlHelper.prototype.setBaggage
Ctl_setBaggage(S, c, b) == [S EXCEPT !.ctls[c].baggage = b]

\* Mutant: inc adds the amount it is given, whatever its sign.
Ctl_inc_raw(S, c, val) ==
    LET v == IF val.k # "number" THEN 1 ELSE val.n
    IN  [S EXCEPT !.ctls[c].count = @ + v]

\* ControlHelper.prototype.inc
Ctl_inc(S, c, val) ==
    LET v == IF val.k # "number" \/ val.n <= 0 THEN 1 ELSE val.n
    IN  [S EXCEPT !.ctls[c].count = @ + v]

\* Mutant: an error does not set the counter to zero.
CountAfterTick_noZero(C, error) == C.count - 1

\* Mutant: an error sets the counter to zero also under tolerance.
CountAfterTick_ignoreTol(C, error) ==
    IF Truthy(error) THEN 0 ELSE C.count - 1

\* Mutant: a tick leaves the counter as it is.
CountAfterTick_stuck(C, error) == C.count

\* Mutant: the counter is set to zero one tick early.
CountAfterTick_early(C, error) ==
    IF (~C.tolerance /\ Truthy(error)) \/ C.count = 2 THEN 0 ELSE C.count - 1

\* The counter after a tick that found it positive: one less, or zero
\* "so that future decrements, doesn't affect".
CountAfterTick(C, error) ==
    IF ~C.tolerance /\ Truthy(error) THEN 0 ELSE C.count - 1

\* Mutant: tick does not test the counter.
Ctl_tick_noGuard(S, c, argc, a1, a2, a3) ==
    LET index == a1
        error == IF argc < 3 THEN a1 ELSE a2
        result == IF argc < 3 THEN a2 ELSE a3
        C0 == S.ctls[c]
        S1 == [S EXCEPT
                 !.ctls[c].count = CountAfterTick(C0, error),
                 !.mgrs[C0.manager] = Mgr_store(@, error, result, index)]
    IN  Ctl_next(S1, c, Undef, Undef)

\* ControlHelper.prototype.tick, called with argc arguments a1, a2, a3.
Ctl_tick(S, c, argc, a1, a2, a3) ==
    LET index == a1
        error == IF argc < 3 THEN a1 ELSE a2
        result == IF argc < 3 THEN a2 ELSE a3
        C0 == S.ctls[c]
    IN  IF C0.count > 0
        THEN LET S1 == [S EXCEPT
                          !.ctls[c].count = CountAfterTick(C0, error),
                          !.mgrs[C0.manager] = Mgr_store(@, error, result, index)]
             IN  Ctl_next(S1, c, Undef, Undef)
        ELSE S

\* set(count)
JustCount(n) == [count |-> Num(n), repeat |-> "undefined", tolerance |-> "undefined"]

\* Mutant: the completion function does not remember that it was called.
Unit_call_always(S, u, errs, results) ==
    Ctl_tick([S EXCEPT !.units[u].called = TRUE], S.units[u].scope, 3,
             Num(S.units[u].i), errs, results)

\* The function that oneTimeUse(this.tick, scope, i) returned, called with
\* (errs, results); u is its place in units.
Unit_call(S, u, errs, results) ==
    IF ~S.units[u].called
    THEN Ctl_tick([S EXCEPT !.units[u].called = TRUE], S.units[u].scope, 3,
                  Num(S.units[u].i), errs, results)
    ELSE S

\* oneTimeUse(this.tick, scope, i) for i = 0 .. n - 1: the loop of parallel.
\* What func does with the function it is handed is the environment.
RECURSIVE oneTimeUse(_, _, _)
oneTimeUse(S, scope, n) ==
    IF n <= 0 THEN S
    ELSE LET S1 == oneTimeUse(S, scope, n - 1)
         IN  [S1 EXCEPT !.units = Append(@,
                  [scope |-> scope, i |-> n - 1, called |-> FALSE])]

\* The first argument of parallel: a number, an array, or a config object
\* with count or array, repeat and tolerance.
PNum(n) ==
    [form |-> "number", count |-> Num(n), array |-> Undef,
     repeat |-> "undefined", tolerance |-> "undefined"]
PArr(items) ==
    [form |-> "array", count |-> Undef, array |-> Arr(items),
     repeat |-> "undefined", tolerance |-> "undefined"]
PObj(count, array, repeat, tolerance) ==
    [form |-> "object", count |-> count, array |-> array,
     repeat |-> repeat, tolerance |-> tolerance]

\* Mutant: parallel advances by itself when there is no unit to run.
Ctl_parallel_autoNext(S, c, p) ==
    LET S1 == IF p.form = "object"
              THEN Ctl_set(S, c, [count |-> p.count, repeat |-> p.repeat,
                                  tolerance |-> p.tolerance])
              ELSE S
        n == CASE p.form = "object" ->
                    (IF Truthy(p.array) THEN p.array ELSE p.count)
               [] p.form = "number" -> p.count
               [] OTHER -> p.array
        size == CASE n.k = "number" -> n.n
                  [] n.k = "array" -> Len(n.a)
                  [] OTHER -> 0
    IN  IF size <= 0
        THEN Ctl_next(S1, c, Undef, Undef)
        ELSE oneTimeUse(Ctl_set(S1, c, JustCount(size)), c, size)

\* ControlHelper.prototype.parallel(p, func, context)
Ctl_parallel(S, c, p) ==
    LET S1 == IF p.form = "object"
              THEN Ctl_set(S, c, [count |-> p.count, repeat |-> p.repeat,
                                  tolerance |-> p.tolerance])
              ELSE S
        n == CASE p.form = "object" ->
                    (IF Truthy(p.array) THEN p.array ELSE p.count)
               [] p.form = "number" -> p.count
               [] OTHER -> p.array
    IN  CASE n.k = "number" ->
               oneTimeUse(Ctl_set(S1, c, [count |-> n, repeat |-> "undefined",
                                          tolerance |-> "undefined"]), c, n.n)
          [] n.k = "array" ->
               oneTimeUse(Ctl_set(S1, c, JustCount(Len(n.a))), c, Len(n.a))
          [] OTHER -> S1

(***************************************************************************)
(* The environment: what the callers of the API pass.                      *)
(***************************************************************************)
NumTasks == 2    \* task functions of a sequence
MaxRepeat == 2   \* largest repeatCount
MaxExtra == 2    \* ticks of a fan-out beyond its count
MaxDup == 1      \* repeated calls of completion functions per fan-out

Counts == {Undef} \cup {Num(i) : i \in 0..MaxCount}
\* set(count), set(count, repeat), set({count: .., repeat: ..}), set({repeat: ..})
\* and set({tolerance: ..})
Configs ==
    [count : Counts, repeat : Tri, tolerance : {"undefined"}]
    \cup [count : {Undef}, repeat : {"undefined"}, tolerance : {"true", "false"}]
OptionSets == [tolerance : Tri, repeat : Tri]

\* (error, result) pairs passed to tick and next.
TickArgs == {<<Null, Str("r1")>>, <<Str("e1"), Undef>>, <<Num(0), Str("r1")>>}
NextArgs == {<<Undef, Undef>>, <<Null, Str("r1")>>, <<Str("e1"), Undef>>}
BagVals == {Str("b1")}

Ctls == 1..Len(ctls)
Mgrs == 1..Len(mgrs)

\* The state stays within the bounds of the model.
Bounded(S) ==
    /\ Len(S.ctls) <= MaxCtl
    /\ Len(S.mgrs) <= MaxMgr
    /\ \A c \in 1..Len(S.ctls) : S.ctls[c].count <= MaxCount
    /\ \A m \in 1..Len(S.mgrs) :
          /\ Len(S.mgrs[m].errors) <= MaxBuf
          /\ Len(S.mgrs[m].results) <= MaxBuf
          /\ S.mgrs[m].repeatCount <= MaxRepeat
          /\ S.mgrs[m].currentFunc <= Len(S.mgrs[m].callbacks)

\* The step to state S made by an API call on controller c (0: none); the
\* dispatches the call caused are marked with c.
Commit(S, c) ==
    /\ Bounded(S)
    /\ mgrs' = S.mgrs
    /\ ctls' = S.ctls
    /\ units' = S.units
    /\ log' = [j \in 1..Len(S.log) |->
                  IF j > Len(log) THEN [S.log[j] EXCEPT !.by = c]
                  ELSE S.log[j]]
    /\ fired' = S.fired
    /\ UNCHANGED seqs

\* One more API call of a behaviour of at most MaxCalls calls.
Budget == calls < MaxCalls /\ calls' = calls + 1

\* seq(e, r): a sequence object called standalone; seq() when both are
\* undefined.
Start(d, e, r) ==
    /\ Budget
    /\ Commit(flowCall(State, d, e, r, Undef, Undef), 0)
    /\ UNCHANGED hist

Set(c, config) ==
    /\ Budget
    /\ Commit(Ctl_set(State, c, config), c)
    /\ UNCHANGED hist

Inc(c, val) ==
    /\ Budget
    /\ Commit(Ctl_inc(State, c, val), c)
    /\ UNCHANGED hist

\* tick(error, result)
Tick(c, e, r) ==
    /\ Budget
    /\ Commit(Ctl_tick(State, c, 2, e, r, Undef), c)
    /\ UNCHANGED hist

\* next(error, result)
CallNext(c, e, r) ==
    /\ Budget
    /\ Commit(Ctl_next(State, c, e, r), c)
    /\ UNCHANGED hist

SetBaggage(c, b) ==
    /\ Budget
    /\ Commit(Ctl_setBaggage(State, c, b), c)
    /\ UNCHANGED hist

\* flow(fn, ..., fn) or flow(options, fn, ..., fn)
PlainSeq(options) ==
    [callbacks |-> [i \in 1..NumTasks |-> Fn], options |-> options]

InitWith(ss) ==
    /\ seqs \in ss
    /\ mgrs = <<>>
    /\ ctls = <<>>
    /\ units = <<>>
    /\ log = <<>>
    /\ fired = {}
    /\ hist = [c \in 1..MaxCtl |-> <<>>]
    /\ calls = 0

(***************************************************************************)
(* Spec: one sequence of NumTasks task functions, built with or without    *)
(* tolerance; the task functions and their callbacks may call anything on  *)
(* any controller they were ever given.                                    *)
(***************************************************************************)
Init ==
    InitWith({<<PlainSeq([tolerance |-> t, repeat |-> "undefined"])>> :
                 t \in {"undefined", "true"}})

Next ==
    \/ Start(1, Undef, Undef)
    \/ \E c \in Ctls, config \in Configs : Set(c, config)
    \/ \E c \in Ctls, val \in {Undef, Num(2)} : Inc(c, val)
    \/ \E c \in Ctls, a \in TickArgs : Tick(c, a[1], a[2])
    \/ \E c \in Ctls, a \in NextArgs : CallNext(c, a[1], a[2])
    \/ \E c \in Ctls, b \in BagVals : SetBaggage(c, b)

Spec == Init /\ [][Next]_vars

(***************************************************************************)
(* Disciplined task functions.  hist[c] lists the calls made on controller *)
(* c by the task it was handed to (and by that task's callbacks).          *)
(***************************************************************************)
Call(name, e, r, n) == [op |-> name, e |-> e, r |-> r, n |-> n]

\* The controllers handed to task functions of the user.
FnCtls == {c \in Ctls : log[c].kind = "fn"}

\* The dispatches of manager m, in order.
DispatchesOf(m) == SelectSeq(log, LAMBDA x : x.mgr = m)
\* The dispatches caused by calls on controller c.
DispatchesBy(c) == SelectSeq(log, LAMBDA x : x.by = c)

\* seq(): a sequence object called standalone with no arguments, once.
D_Start(d) ==
    /\ mgrs = <<>>
    /\ Commit(flowCall(State, d, Undef, Undef, Undef, Undef), 0)
    /\ UNCHANGED <<hist, calls>>

\* A task that has called nothing yet calls next(e, r).
D_Next(c, e, r) ==
    /\ hist[c] = <<>> \/ (Len(hist[c]) = 1 /\ hist[c][1].op = "setBaggage")
    /\ Commit(Ctl_next(State, c, e, r), c)
    /\ hist' = [hist EXCEPT ![c] = Append(@, Call("next", e, r, 0))]
    /\ UNCHANGED calls

\* The controllers whose task has called set.
Fanned == {c \in Ctls : hist[c] # <<>> /\ hist[c][1].op = "set"}

\* A task that has called nothing yet calls set(n); one task of a run does.
D_Set(c, n) ==
    /\ hist[c] = <<>>
    /\ Fanned = {}
    /\ Commit(Ctl_set(State, c, JustCount(n)), c)
    /\ hist' = [hist EXCEPT ![c] = <<Call("set", Undef, Undef, n)>>]
    /\ UNCHANGED calls

\* set({count: n, tolerance: t}), or set(n, undefined, t)
TolConfig(n, t) == [count |-> Num(n), repeat |-> "undefined", tolerance |-> t]

\* A task that has called nothing yet calls set(n, undefined, t), which
\* overrides the tolerance of its controller unless t is undefined.
D_SetTol(c, n, t) ==
    /\ hist[c] = <<>>
    /\ Fanned = {}
    /\ Commit(Ctl_set(State, c, TolConfig(n, t)), c)
    /\ hist' = [hist EXCEPT ![c] = <<Call("set", Undef, Undef, n)>>]
    /\ UNCHANGED calls

\* One of the n completions of a task that called set(n) calls tick(e, r).
D_Tick(c, e, r) ==
    /\ c \in Fanned
    /\ Len(hist[c]) <= hist[c][1].n
    /\ Commit(Ctl_tick(State, c, 2, e, r, Undef), c)
    /\ hist' = [hist EXCEPT ![c] = Append(@, Call("tick", e, r, 0))]
    /\ UNCHANGED calls

\* A completion of a task that called set(n) calls tick(e, r) once more
\* after the n ticks have arrived (a duplicate or a late callback).
D_ExtraTick(c, e, r) ==
    /\ c \in Fanned
    /\ Len(hist[c]) > hist[c][1].n
    /\ Len(hist[c]) <= hist[c][1].n + MaxExtra
    /\ Commit(Ctl_tick(State, c, 2, e, r, Undef), c)
    /\ hist' = [hist EXCEPT ![c] = Append(@, Call("tick", e, r, 0))]
    /\ UNCHANGED calls

\* A task that has called nothing yet calls setBaggage(b).
D_SetBaggage(c, b) ==
    /\ hist[c] = <<>>
    /\ Commit(Ctl_setBaggage(State, c, b), c)
    /\ hist' = [hist EXCEPT ![c] = <<Call("setBaggage", b, Undef, 0)>>]
    /\ UNCHANGED calls

\* The controllers whose task has called parallel.
Paralleled == {c \in Ctls : hist[c] # <<>> /\ hist[c][1].op = "parallel"}

\* A task that has called nothing yet calls parallel(p, func); one task of
\* a run does.  The history keeps the number of units func was called for.
D_Parallel(c, p) ==
    /\ hist[c] = <<>>
    /\ Paralleled = {}
    /\ LET S2 == Ctl_parallel(State, c, p)
       IN  /\ Commit(S2, c)
           /\ hist' = [hist EXCEPT ![c] =
                 <<Call("parallel", Undef, Undef, Len(S2.units) - Len(units))>>]
    /\ UNCHANGED calls

\* A unit of a parallel task calls its completion function the first time.
D_Done(u, e, r) ==
    /\ ~units[u].called
    /\ Commit(Unit_call(State, u, e, r), units[u].scope)
    /\ hist' = [hist EXCEPT ![units[u].scope] =
                   Append(@, Call("done", e, r, units[u].i))]
    /\ UNCHANGED calls

\* The repeated calls of completion functions made for controller c.
Dups(c) == SelectSeq(hist[c], LAMBDA x : x.op = "dup")

\* A unit of a parallel task calls its completion function once again.
D_Dup(u, e, r) ==
    /\ units[u].called
    /\ Len(Dups(units[u].scope)) < MaxDup
    /\ Commit(Unit_call(State, u, e, r), units[u].scope)
    /\ hist' = [hist EXCEPT ![units[u].scope] =
                   Append(@, Call("dup", e, r, units[u].i))]
    /\ UNCHANGED calls

\* set({repeat: true}) when n = 0, set(n, true) when n > 0
RepeatConfig(n) ==
    [count |-> IF n > 0 THEN Num(n) ELSE Undef, repeat |-> "true",
     tolerance |-> "undefined"]

\* A task that has called nothing yet and has been repeated fewer than
\* MaxRepeat times requests repeat, setting the counter to n if n > 0.
D_SetRepeat(c, n) ==
    /\ hist[c] = <<>>
    /\ ctls[c].repeatCount < MaxRepeat
    /\ Commit(Ctl_set(State, c, RepeatConfig(n)), c)
    /\ hist' = [hist EXCEPT ![c] = <<Call("repeat", Undef, Undef, n)>>]
    /\ UNCHANGED calls

\* A task that requested repeat and set no counter calls next(e, r).
D_NextAfter(c, e, r) ==
    /\ hist[c] = <<Call("repeat", Undef, Undef, 0)>>
    /\ Commit(Ctl_next(State, c, e, r), c)
    /\ hist' = [hist EXCEPT ![c] = Append(@, Call("next", e, r, 0))]
    /\ UNCHANGED calls

\* One of the n completions of a task that requested repeat with set(n,
\* true) calls tick(e, r).
D_TickAfter(c, e, r) ==
    /\ hist[c] # <<>>
    /\ hist[c][1].op = "repeat"
    /\ Len(hist[c]) <= hist[c][1].n
    /\ Commit(Ctl_tick(State, c, 2, e, r, Undef), c)
    /\ hist' = [hist EXCEPT ![c] = Append(@, Call("tick", e, r, 0))]
    /\ UNCHANGED calls

\* One of the n completions of a task that called set(n) calls next(e, r)
\* where it should call tick(e, r).
D_EarlyNext(c, e, r) ==
    /\ c \in Fanned
    /\ Len(hist[c]) <= hist[c][1].n
    /\ \A k \in 1..Len(hist[c]) : hist[c][k].op # "next"
    /\ Commit(Ctl_next(State, c, e, r), c)
    /\ hist' = [hist EXCEPT ![c] = Append(@, Call("next", e, r, 0))]
    /\ UNCHANGED calls

\* A task whose parallel() call started no unit calls next(e, r).
D_NextAfterEmpty(c, e, r) ==
    /\ hist[c] = <<Call("parallel", Undef, Undef, 0)>>
    /\ Commit(Ctl_next(State, c, e, r), c)
    /\ hist' = [hist EXCEPT ![c] = Append(@, Call("next", e, r, 0))]
    /\ UNCHANGED calls

(***************************************************************************)
(* SpecSerial: a sequence built with default options and started           *)
(* standalone; every task calls next(e, r) once and nothing else.          *)
(***************************************************************************)
SerialErr == {Undef, Null, Str("e1"), Num(0)}
SerialRes == {Undef, Str("r1"), Str("r2")}

InitSerial == InitWith({<<PlainSeq(NoOptions)>>})

NextSerial ==
    \/ D_Start(1)
    \/ \E c \in FnCtls, e \in SerialErr, r \in SerialRes : D_Next(c, e, r)

SpecSerial == InitSerial /\ [][NextSerial]_vars

\* The controllers of manager m whose task has called next.
NextCalled(m) == {c \in Ctls : log[c].mgr = m /\ hist[c] # <<>>}

\* C1: when every task calls next() once on its own controller and sets no
\* counter, each run dispatches its callbacks in declaration order, each
\* once: the j-th dispatch of a run is callback j-1, caused by the next()
\* call of the task dispatched before it, and the completion callback of
\* execute() is dispatched once, by the last task's call.
C1_SerialOrder ==
    \A m \in Mgrs :
        LET L == DispatchesOf(m)
        IN  /\ Len(L) = 1 + Cardinality(NextCalled(m))
            /\ \A j \in 1..Len(L) :
                  /\ L[j].func = j - 1
                  /\ L[j].kind = (IF j <= NumTasks THEN "fn" ELSE "cb")
                  /\ j = 1 => L[j].by = 0
                  /\ j > 1 => L[j].by = L[j - 1].ctl

\* A run whose last task has called next: the completion callback ran.
C1_Witness ==
    \E m \in Mgrs :
        /\ Cardinality(NextCalled(m)) = NumTasks
        /\ \E j \in 1..Len(log) :
              log[j].mgr = m /\ log[j].kind = "cb" /\ log[j].func = NumTasks

(***************************************************************************)
(* SpecFanout: a sequence built with or without tolerance and started      *)
(* standalone; one of its tasks calls set(K) and each of its K completions *)
(* calls tick(e, r) once, in any order; the other tasks call next once.    *)
(***************************************************************************)
FanArgs == {<<Null, Str("r1")>>, <<Null, Str("r2")>>,
            <<Str("e1"), Str("r2")>>, <<Num(0), Str("r1")>>}
FanNextArgs == {<<Undef, Undef>>, <<Null, Str("r1")>>}

InitFanout ==
    InitWith({<<PlainSeq([tolerance |-> t, repeat |-> "undefined"])>> :
                 t \in {"undefined", "true"}})

NextFanout ==
    \/ D_Start(1)
    \/ \E c \in FnCtls, a \in FanNextArgs : D_Next(c, a[1], a[2])
    \/ \E c \in FnCtls, n \in 1..MaxCount : D_Set(c, n)
    \/ \E c \in FnCtls, a \in FanArgs : D_Tick(c, a[1], a[2])

SpecFanout == InitFanout /\ [][NextFanout]_vars

\* The ticks that have arrived on a controller whose task called set.
TicksOf(c) == SubSeq(hist[c], 2, Len(hist[c]))

\* C2: a task calls set(K), K > 0, and its completions call tick() with no
\* error: no callback is dispatched before the K-th tick, and the K-th tick
\* dispatches exactly one, the next task of the same run, whatever the
\* order of the ticks.
C2_FanoutOnce ==
    \A c \in Fanned :
        LET T == TicksOf(c)
            D == DispatchesBy(c)
        IN  (\A i \in 1..Len(T) : NoError(T[i].e)) =>
               /\ Len(D) = (IF Len(T) = hist[c][1].n THEN 1 ELSE 0)
               /\ \A j \in 1..Len(D) :
                     /\ D[j].mgr = log[c].mgr
                     /\ D[j].func = log[c].func + 1

\* All K > 1 error-free ticks of a task have arrived, in an order that the
\* results tell apart, and the next task has been dispatched.
C2_Witness ==
    \E c \in Fanned :
        /\ hist[c][1].n >= 2
        /\ Len(TicksOf(c)) = hist[c][1].n
        /\ \A i \in 1..Len(TicksOf(c)) : NoError(TicksOf(c)[i].e)
        /\ TicksOf(c)[1].r = Str("r2")
        /\ TicksOf(c)[2].r = Str("r1")
        /\ Len(DispatchesBy(c)) = 1

\* The manager and the controller of c are both intolerant.
Intolerant(c) == ~ctls[c].tolerance /\ ~mgrs[ctls[c].manager].tolerance

\* tick(e, r) on c dispatches the next task at once, leaves the counter of
\* c at zero, and every tick on c after it changes nothing.
ShortCircuits(c, e, r) ==
    LET m == ctls[c].manager
        S2 == Ctl_tick(State, c, 2, e, r, Undef)
    IN  /\ S2.ctls[c].count = 0
        /\ Len(S2.log) = Len(log) + 1
        /\ S2.log[Len(S2.log)].mgr = m
        /\ S2.log[Len(S2.log)].func = mgrs[m].currentFunc + 1
        /\ \A a \in FanArgs : Ctl_tick(S2, c, 2, a[1], a[2], Undef) = S2

\* The first tick of c that carried a truthy error; 0 if none did.
FirstError(c) ==
    LET T == TicksOf(c)
        E == {i \in 1..Len(T) : Truthy(T[i].e)}
    IN  IF E = {} THEN 0 ELSE CHOOSE i \in E : \A j \in E : i <= j

\* C3: under intolerant mode a tick() carrying a truthy error
\* on a controller whose counter is K > 1 sets the counter to zero and
\* dispatches the next task at once; from then on the counter stays zero,
\* the controller has dispatched exactly once, and any tick() on it leaves
\* counters, buffers, task index and dispatches unchanged.
C3_ErrorShortCircuit ==
    \A c \in Fanned :
        Intolerant(c) =>
           /\ ctls[c].count > 1 =>
                 \A a \in FanArgs : Truthy(a[1]) => ShortCircuits(c, a[1], a[2])
           /\ FirstError(c) # 0 =>
                 /\ ctls[c].count = 0
                 /\ Len(DispatchesBy(c)) = 1
                 /\ \A a \in FanArgs :
                       Ctl_tick(State, c, 2, a[1], a[2], Undef) = State

\* C3 as stated, for every error that is not null: refuted by the error 0.
C3_Original ==
    \A c \in Fanned :
        (Intolerant(c) /\ ctls[c].count > 1) =>
            \A a \in FanArgs : ~NoError(a[1]) => ShortCircuits(c, a[1], a[2])

\* A task set K > 1, its first tick carried an error and a later tick has
\* arrived after the next task was dispatched.
C3_Witness ==
    \E c \in Fanned :
        /\ Intolerant(c)
        /\ hist[c][1].n > 1
        /\ FirstError(c) = 1
        /\ Len(TicksOf(c)) > 1
        /\ Len(DispatchesBy(c)) = 1

C4_Case(c) ==
    /\ Intolerant(c)
    /\ hist[c] = <<Call("set", Undef, Undef, 2),
                   Call("tick", Null, Str("r1"), 0),
                   Call("tick", Str("e1"), Str("r2"), 0)>>

NestArgs == {<<Undef, Undef>>, <<Null, Str("r1")>>,
             <<Str("e1"), Undef>>, <<Str("e1"), Str("r2")>>}

OuterSeq(options) ==
    [callbacks |-> <<Fn, SeqTask(1), Fn>>, options |-> options]

InitNested ==
    InitWith({<<PlainSeq(NoOptions),
                OuterSeq([tolerance |-> t, repeat |-> "undefined"])>> :
                 t \in {"undefined", "true"}})

NextNested ==
    \/ D_Start(2)
    \/ \E c \in FnCtls, a \in NestArgs : D_Next(c, a[1], a[2])
    \/ \E c \in FnCtls, b \in BagVals : D_SetBaggage(c, b)

SpecNested == InitNested /\ [][NextNested]_vars

\* The controller captured by the completion callback of manager m: the
\* parent's controller when m runs a nested sequence, else 0.
ParentCtl(m) == mgrs[m].callbacks[Len(mgrs[m].callbacks)].parallelMgr

\* Dispatch j is the first task of a nested sequence: the parent's dispatch
\* of a sequence object starts it at once.
NestedFirst(j) == j > 1 /\ log[j - 1].kind = "seq"

\* C6: the first task of a nested sequence receives the
\* values the parent dispatched to the nested task as seeds of the pending
\* buffers: its results argument is a one-element array holding the
\* parent's results value, its error argument is null when the parent's
\* errors value is null and else a one-element array holding it, and its
\* baggage is the parent's baggage.
C6_NestedSeed ==
    \A j \in 1..Len(log) :
        NestedFirst(j) =>
            LET p == log[j - 1]
            IN  /\ log[j].func = 0
                /\ log[j].mgr # p.mgr
                /\ ParentCtl(log[j].mgr) = p.ctl
                /\ log[j].res = Arr(<<p.res>>)
                /\ log[j].errs = (IF NoError(p.errs) THEN Null
                                  ELSE Arr(<<p.errs>>))
                /\ log[j].baggage = p.baggage

\* C6 as stated: exactly the parent's errors and results values.
C6_Original ==
    \A j \in 1..Len(log) :
        NestedFirst(j) =>
            log[j].errs = log[j - 1].errs /\ log[j].res = log[j - 1].res

\* A nested sequence was started after the parent's first task passed on
\* an error and a result.
C6_Witness ==
    \E j \in 1..Len(log) :
        /\ NestedFirst(j)
        /\ log[j - 1].errs = Arr(<<Str("e1")>>)
        /\ log[j - 1].res = Arr(<<Str("r2")>>)
        /\ log[j].errs = Arr(<<Arr(<<Str("e1")>>)>>)
        /\ log[j].res = Arr(<<Arr(<<Str("r2")>>)>>)

\* Dispatch j is the parent's task after a nested sequence, dispatched by
\* the next() call of the nested sequence's last task on controller c.
AfterNested(j, c) ==
    /\ log[j].by = c
    /\ c # 0
    /\ ParentCtl(log[c].mgr) # 0
    /\ log[j].mgr = log[ParentCtl(log[c].mgr)].mgr
    /\ log[j].func = log[ParentCtl(log[c].mgr)].func + 1

\* v holds a controller object.
HoldsCtl(v) ==
    \/ v.k = "ControlHelper"
    \/ v.k = "array" /\ \E i \in 1..Len(v.a) : v.a[i].k = "ControlHelper"

\* C5: the completion of a nested sequence advances the parent once, and
\* the parent's next task receives the error and the result of the nested
\* sequence's last task: no controller object as its error, no error when
\* the last task passed none, and as baggage the baggage of the last task,
\* not its results.
C5_NestedResult ==
    \A c \in FnCtls : \A j \in 1..Len(log) :
        AfterNested(j, c) =>
            /\ Len(DispatchesBy(c)) = 2
            /\ ~HoldsCtl(log[j].errs)
            /\ NoError(hist[c][Len(hist[c])].e) => log[j].errs = Null
            /\ log[j].baggage = ctls[c].baggage

(***************************************************************************)
(* SpecOptions: a sequence built with every combination of the options     *)
(* tolerance and repeat, started standalone with no arguments; every task  *)
(* calls next(e, r) once.                                                  *)
(***************************************************************************)
InitOptions == InitWith({<<PlainSeq(o)>> : o \in OptionSets})

SpecOptions == InitOptions /\ [][NextSerial]_vars

\* C9: calling the sequence object with no arguments dispatches the first
\* task, once, whatever the options it was built with.
C9_FirstTaskDispatched ==
    \A m \in Mgrs :
        LET L == DispatchesOf(m)
        IN  /\ Len(L) >= 1
            /\ L[1].func = 0
            /\ L[1].by = 0
            /\ \A j \in 2..Len(L) : L[j].func # 0

(***************************************************************************)
(* Claims about Spec, where any call may be made on any controller.        *)
(***************************************************************************)
\* C10: a controller that has advanced its manager is inert: its counter
\* stays zero and it has caused at most one dispatch.
C10_StaleInert ==
    \A c \in fired :
        /\ ctls[c].count = 0
        /\ Len(DispatchesBy(c)) <= 1

\* The manager that handed out controller c.
Own(c) == log[c].mgr

\* State S2, reached by a call on a controller of manager m, differs from
\* the current state in nothing that belongs to another manager.
Isolated(S2, m) ==
    /\ Len(S2.mgrs) = Len(mgrs)
    /\ \A m2 \in Mgrs \ {m} : S2.mgrs[m2] = mgrs[m2]
    /\ \A c2 \in Ctls : Own(c2) # m => S2.ctls[c2] = ctls[c2]
    /\ \A j \in 1..Len(S2.log) :
          IF j <= Len(log) THEN S2.log[j] = log[j] ELSE S2.log[j].mgr = m

\* A new run starts from the state of a new manager, whatever the state
\* of the runs before it, and changes none of them.
FreshStart ==
    LET S2 == flowCall(State, 1, Undef, Undef, Undef, Undef)
        m == Len(mgrs) + 1
    IN  /\ \A m2 \in Mgrs : S2.mgrs[m2] = mgrs[m2]
        /\ \A c2 \in Ctls : S2.ctls[c2] = ctls[c2]
        /\ S2.mgrs[m] = [SerialManager(seqs[1].callbacks, seqs[1].options)
                            EXCEPT !.callbacks = Append(@, Cb(0)),
                                   !.currentFunc = 0,
                                   !.lastArgs = <<Null, Arr(<<>>)>>]
        /\ Len(S2.log) = Len(log) + 1
        /\ S2.log[Len(S2.log)].mgr = m
        /\ S2.log[Len(S2.log)].errs = Null
        /\ S2.log[Len(S2.log)].res = Arr(<<>>)

\* C7: two runs of the same sequence object have their own task index,
\* buffers, repeat flag and repeat count: no call on a controller of one
\* run changes the manager, the controllers or the dispatches of the
\* other, a new run starts fresh, and every run dispatches its callbacks
\* in declaration order (each dispatch is the callback of the one before
\* it, repeated, or the one after it).
C7_RunsIndependent ==
    /\ \A c \in Ctls :
          /\ \A config \in Configs : Isolated(Ctl_set(State, c, config), Own(c))
          /\ \A v \in {Undef, Num(2)} : Isolated(Ctl_inc(State, c, v), Own(c))
          /\ \A a \in TickArgs :
                Isolated(Ctl_tick(State, c, 2, a[1], a[2], Undef), Own(c))
          /\ \A a \in NextArgs : Isolated(Ctl_next(State, c, a[1], a[2]), Own(c))
          /\ \A b \in BagVals : Isolated(Ctl_setBaggage(State, c, b), Own(c))
    /\ FreshStart
    /\ \A m \in Mgrs :
          LET L == DispatchesOf(m)
          IN  \A j \in 1..Len(L) :
                 IF j = 1 THEN L[j].func = 0
                 ELSE L[j].func \in {L[j - 1].func, L[j - 1].func + 1}

\* Two runs whose dispatches interleave and whose managers differ in task
\* index and repeat flag.
C7_Witness ==
    /\ Len(mgrs) = 2
    /\ mgrs[1].currentFunc = 1
    /\ mgrs[2].currentFunc = 0
    /\ mgrs[2].repeatNext
    /\ ~mgrs[1].repeatNext
    /\ \E i, j, k \in 1..Len(log) :
          i < j /\ j < k /\ log[i].mgr = 1 /\ log[j].mgr = 2 /\ log[k].mgr = 1

\* tick(e, r) brings the counter of c to zero while a repeat is requested:
\* the current task is dispatched again with the arguments of its previous
\* dispatch, the request is used up, and the next exhaustion advances.
Repeats(c, e, r) ==
    LET m == ctls[c].manager
        S2 == Ctl_tick(State, c, 2, e, r, Undef)
        c2 == Len(S2.ctls)
        S3 == Ctl_next(S2, c2, Undef, Undef)
    IN  /\ S2.ctls[c].count = 0
        /\ S2.mgrs[m].currentFunc = mgrs[m].currentFunc
        /\ Len(S2.log) = Len(log) + 1
        /\ c2 = Len(ctls) + 1
        /\ S2.log[c2].mgr = m
        /\ S2.log[c2].func = mgrs[m].currentFunc
        /\ S2.log[c2].errs = mgrs[m].lastArgs[1]
        /\ S2.log[c2].res = mgrs[m].lastArgs[2]
        /\ ~S2.mgrs[m].repeatNext
        /\ S3.mgrs[m].currentFunc = mgrs[m].currentFunc + 1

\* A repeat is requested of manager m, which has a current callback.
RepeatRequested(m) ==
    /\ mgrs[m].repeatNext
    /\ mgrs[m].currentFunc >= 0
    /\ mgrs[m].currentFunc < Len(mgrs[m].callbacks)

\* C8: if a task has requested repeat and its counter reaches
\* zero while the manager is tolerant or no error that is not null is
\* pending, the same task is dispatched again with the error and result
\* arguments of its previous dispatch, not the values just recorded; if it
\* does not request repeat again, the next exhaustion advances.  In every
\* run, a dispatch of the same callback as the one before it carries the
\* same arguments and a repeat count one higher.
C8_RepeatSameArgs ==
    /\ \A c \in Ctls : \A a \in TickArgs :
          LET m == ctls[c].manager
          IN  ( /\ RepeatRequested(m)
                /\ ctls[c].count = 1
                /\ \/ mgrs[m].tolerance
                   \/ /\ NoError(a[1])
                      /\ \A i \in 1..Len(mgrs[m].errors) :
                            NoError(mgrs[m].errors[i]) )
              => Repeats(c, a[1], a[2])
    /\ \A m \in Mgrs :
          LET L == DispatchesOf(m)
          IN  \A j \in 2..Len(L) :
                 L[j].func = L[j - 1].func =>
                    /\ L[j].errs = L[j - 1].errs
                    /\ L[j].res = L[j - 1].res
                    /\ L[j].repeatCount = L[j - 1].repeatCount + 1

\* C8 as stated: whenever the counter reaches zero after a repeat request.
C8_Original ==
    \A c \in Ctls : \A a \in TickArgs :
        (RepeatRequested(ctls[c].manager) /\ ctls[c].count = 1)
            => Repeats(c, a[1], a[2])

\* A task was repeated after a fan-out that recorded a result, received
\* the arguments of its first dispatch, and the run then advanced.
C8_Witness ==
    \E i, j, k \in 1..Len(log) :
        /\ i < j /\ j < k
        /\ log[i].mgr = log[j].mgr /\ log[j].mgr = log[k].mgr
        /\ log[i].func = 0 /\ log[j].func = 0 /\ log[k].func = 1
        /\ log[j].repeatCount = 1
        /\ log[j].res = Arr(<<>>)
        /\ log[k].res = Arr(<<Str("r1")>>)

\* The last dispatch of manager m (0: none) and the controller it handed
\* out: the controller of the current task of m.
LastDispatch(m) ==
    LET J == {j \in 1..Len(log) : log[j].mgr = m}
    IN  IF J = {} THEN 0 ELSE CHOOSE j \in J : \A k \in J : k <= j
CurrentCtl(m) == log[LastDispatch(m)].ctl

\* In state S2, reached by a call on a controller of manager m, m has not
\* moved to a later task while the counter of the controller of its current
\* task is greater than zero.
NoEarlyAdvance(S2, m) ==
    S2.mgrs[m].currentFunc > mgrs[m].currentFunc =>
        S2.ctls[CurrentCtl(m)].count = 0

\* C11: whatever calls the tasks and their callbacks make on the
\* controllers they were given, the next task is never dispatched while the
\* counter of the controller handed to the current task is greater than
\* zero.
C11_StrictOrder ==
    \A c \in Ctls :
        LET m == Own(c)
        IN  /\ \A a \in NextArgs : NoEarlyAdvance(Ctl_next(State, c, a[1], a[2]), m)
            /\ \A a \in TickArgs :
                  NoEarlyAdvance(Ctl_tick(State, c, 2, a[1], a[2], Undef), m)

(***************************************************************************)
(* SpecOverTick: SpecFanout, where the completions of the task that called *)
(* set(K) may call tick() again after the K ticks have arrived.            *)
(***************************************************************************)
NextOverTick ==
    \/ NextFanout
    \/ \E c \in FnCtls, a \in FanArgs : D_ExtraTick(c, a[1], a[2])

SpecOverTick == InitFanout /\ [][NextOverTick]_vars

\* C12: after a controller whose counter was set to K has received K
\* tick() calls its counter is 0 and stays 0, the controller has dispatched
\* exactly one callback, and every further tick() on it, with or without an
\* explicit index, leaves counters, pending buffers, task index and
\* dispatches as they are.
C12_ExhaustedTickNoop ==
    \A c \in Fanned :
        Len(TicksOf(c)) >= hist[c][1].n =>
            /\ ctls[c].count = 0
            /\ Len(DispatchesBy(c)) = 1
            /\ \A a \in FanArgs :
                  /\ Ctl_tick(State, c, 2, a[1], a[2], Undef) = State
                  /\ Ctl_tick(State, c, 3, Num(0), a[1], a[2]) = State

\* A controller set to K > 1 has received more than K ticks, the last of
\* them carrying an error, while the task after it has not moved on.
C12_Witness ==
    \E c \in Fanned :
        /\ hist[c][1].n > 1
        /\ Len(TicksOf(c)) > hist[c][1].n
        /\ Truthy(hist[c][Len(hist[c])].e)
        /\ mgrs[Own(c)].currentFunc = log[c].func + 1
        /\ mgrs[Own(c)].errors = <<>>

(***************************************************************************)
(* SpecTolerance: SpecFanout, where the task that fans out sets the        *)
(* tolerance of its controller together with the count.                    *)
(***************************************************************************)
NextTolerance ==
    \/ D_Start(1)
    \/ \E c \in FnCtls, a \in FanNextArgs : D_Next(c, a[1], a[2])
    \/ \E c \in FnCtls, n \in 1..MaxCount, t \in Tri : D_SetTol(c, n, t)
    \/ \E c \in FnCtls, a \in FanArgs : D_Tick(c, a[1], a[2])

SpecTolerance == InitFanout /\ [][NextTolerance]_vars

\* The callbacks controller c has dispatched are: none before the K-th
\* tick, the next task of its run from the K-th tick on.
AfterAllTicks(c) ==
    LET T == TicksOf(c)
        D == DispatchesBy(c)
    IN  /\ Len(D) = (IF Len(T) = hist[c][1].n THEN 1 ELSE 0)
        /\ \A j \in 1..Len(D) :
              D[j].mgr = Own(c) /\ D[j].func = log[c].func + 1

\* C13: when the tolerance of a controller is enabled (taken from the
\* Sequencer at dispatch, or set on the controller), a tick() carrying an
\* error only decrements the counter: for a controller set to K the next
\* task is dispatched at the K-th tick and not before, whatever number of
\* ticks carried errors, and it receives the K recorded errors in arrival
\* order (null if none of them is an error) and the K results.
C13_TolerantWaits ==
    \A c \in Fanned :
        ctls[c].tolerance =>
            LET T == TicksOf(c)
                D == DispatchesBy(c)
            IN  /\ ctls[c].count = hist[c][1].n - Len(T)
                /\ AfterAllTicks(c)
                /\ (Len(D) = 1 /\ \A i \in 1..Len(T) : T[i].e.k # "number") =>
                      /\ D[1].errs = compact([i \in 1..Len(T) |-> T[i].e])
                      /\ D[1].res = Arr([i \in 1..Len(T) |-> T[i].r])

\* C13 as stated, for a controller whose own tolerance or whose
\* Sequencer's tolerance is enabled: refuted by a task that disables the
\* tolerance of its controller under a tolerant Sequencer.
C13_Original ==
    \A c \in Fanned :
        (ctls[c].tolerance \/ mgrs[Own(c)].tolerance) => AfterAllTicks(c)

\* Under an intolerant Sequencer a task enabled the tolerance of its
\* controller and set 2; the first tick carried an error, and the next
\* task was dispatched by the second with both recorded errors.
C13_Witness ==
    \E c \in Fanned :
        /\ ~mgrs[Own(c)].tolerance
        /\ ctls[c].tolerance
        /\ hist[c][1].n = 2
        /\ Len(TicksOf(c)) = 2
        /\ TicksOf(c)[1].e = Str("e1")
        /\ Len(DispatchesBy(c)) = 1
        /\ DispatchesBy(c)[1].errs = Arr(<<Str("e1"), Null>>)

(***************************************************************************)
(* SpecScope: flow(fn, ..., fn, scope) and flow(config, fn, ..., fn,       *)
(* scope), started standalone; every task calls next(e, r) once.           *)
(***************************************************************************)
ScopeArg == ObjArg("undefined", "undefined", "scope")
TaskArgs == [i \in 1..NumTasks |-> Fn]

InitScope ==
    InitWith({<<flow(TaskArgs \o <<ScopeArg>>)>>}
             \cup {<<flow(<<ObjArg(t, "undefined", "config")>>
                          \o TaskArgs \o <<ScopeArg>>)>> :
                      t \in {"true", "false"}})

SpecScope == InitScope /\ [][NextSerial]_vars

\* C14: every task is invoked with the scope object given as the trailing
\* argument of flow() as its this.
C14_ScopePassed ==
    \A j \in 1..Len(log) : log[j].kind = "fn" => log[j].this = Obj("scope")

(***************************************************************************)
(* SpecParallel: a sequence built with or without tolerance and started    *)
(* standalone; one of its tasks calls parallel(N, worker), parallel(array, *)
(* worker) or parallel(config, worker); the units call their completion    *)
(* functions in any order, some of them more than once; the other tasks    *)
(* call next once.                                                         *)
(***************************************************************************)
Items == [i \in 1..MaxCount |-> Str("item")]
ParallelArgs ==
    {PNum(n) : n \in 1..MaxCount}
    \cup {PArr(Items), PObj(Undef, Arr(Items), "undefined", "undefined")}
    \cup {PObj(Num(MaxCount), Undef, "undefined", t) : t \in {"true", "false"}}
DoneArgs == {<<Null, Str("r1")>>, <<Null, Str("r2")>>, <<Str("e1"), Str("r2")>>}
DupArgs == {<<Str("e2"), Str("r3")>>}
Units == 1..Len(units)

NextParallel ==
    \/ D_Start(1)
    \/ \E c \in FnCtls, a \in FanNextArgs : D_Next(c, a[1], a[2])
    \/ \E c \in FnCtls, p \in ParallelArgs : D_Parallel(c, p)
    \/ \E u \in Units, a \in DoneArgs : D_Done(u, a[1], a[2])
    \/ \E u \in Units, a \in DupArgs : D_Dup(u, a[1], a[2])

SpecParallel == InitFanout /\ [][NextParallel]_vars

\* The units of the parallel task of c whose completion function has been
\* called, by index, and the first call of unit i.
CalledUnits(c) ==
    {i \in 0..(hist[c][1].n - 1) :
        \E k \in 2..Len(hist[c]) : hist[c][k].op = "done" /\ hist[c][k].n = i}
DoneOf(c, i) ==
    hist[c][CHOOSE k \in 2..Len(hist[c]) :
                hist[c][k].op = "done" /\ hist[c][k].n = i]

\* No unit of c has passed an error, or c is tolerant.
NoShortCircuit(c) ==
    ctls[c].tolerance \/ \A i \in CalledUnits(c) : NoError(DoneOf(c, i).e)

\* C15: for a task that runs parallel(N, worker) or parallel(array, worker)
\* with no errors or under tolerance, the next task is dispatched when all
\* N completion functions have been called, and its results array holds at
\* position i the result passed to the completion function of unit i (its
\* errors likewise), for every order of the calls.
C15_ParallelPositions ==
    \A c \in Paralleled :
        LET K == hist[c][1].n
            D == DispatchesBy(c)
        IN  NoShortCircuit(c) =>
               /\ Len(D) = (IF CalledUnits(c) = 0..(K - 1) THEN 1 ELSE 0)
               /\ Len(D) = 1 =>
                     /\ D[1].mgr = Own(c)
                     /\ D[1].func = log[c].func + 1
                     /\ D[1].res = Arr([i \in 1..K |-> DoneOf(c, i - 1).r])
                     /\ D[1].errs = compact([i \in 1..K |-> DoneOf(c, i - 1).e])

\* Unit 1 completed before unit 0, with different results; the next task
\* received them by index.
C15_Witness ==
    \E c \in Paralleled :
        /\ hist[c][1].n = 2
        /\ Len(hist[c]) >= 3
        /\ hist[c][2] = Call("done", Null, Str("r2"), 1)
        /\ hist[c][3] = Call("done", Null, Str("r1"), 0)
        /\ Len(DispatchesBy(c)) = 1
        /\ DispatchesBy(c)[1].res = Arr(<<Str("r1"), Str("r2")>>)

\* C16: a completion function handed out by parallel() acts on its first
\* call only: a later call leaves counters, buffers, task index and
\* dispatches unchanged, also while other units are pending; the counter
\* goes down by one per unit that has completed, not per call.
C16_SingleUse ==
    /\ \A u \in Units :
          units[u].called =>
              \A a \in DoneArgs \cup DupArgs :
                  Unit_call(State, u, a[1], a[2]) = State
    /\ \A c \in Paralleled :
          NoShortCircuit(c) =>
              ctls[c].count = hist[c][1].n - Cardinality(CalledUnits(c))

\* A completion function was called a second time, with an error, while
\* another unit of the same fan-out had not completed.
C16_Witness ==
    \E c \in Paralleled :
        /\ hist[c][1].n = 2
        /\ Len(hist[c]) = 3
        /\ hist[c][2].op = "done"
        /\ hist[c][3] = Call("dup", Str("e2"), Str("r3"), hist[c][2].n)
        /\ ctls[c].count = 1
        /\ ~ctls[c].tolerance
        /\ Len(DispatchesBy(c)) = 0

(***************************************************************************)
(* SpecRepeat: a sequence built with or without tolerance and started      *)
(* standalone; every task either calls next(e, r), or requests repeat      *)
(* first and then calls next(e, r) or, having set the counter to 1, has    *)
(* its completion call tick(e, r).                                         *)
(***************************************************************************)
RepeatArgs == {<<Null, Str("r1")>>, <<Str("e1"), Str("r2")>>}

NextRepeat ==
    \/ D_Start(1)
    \/ \E c \in FnCtls, a \in RepeatArgs : D_Next(c, a[1], a[2])
    \/ \E c \in FnCtls, n \in 0..1 : D_SetRepeat(c, n)
    \/ \E c \in FnCtls, a \in RepeatArgs : D_NextAfter(c, a[1], a[2])
    \/ \E c \in FnCtls, a \in RepeatArgs : D_TickAfter(c, a[1], a[2])

SpecRepeat == InitFanout /\ [][NextRepeat]_vars

\* The task handed controller c requested repeat.
Requested(c) == hist[c] # <<>> /\ hist[c][1].op = "repeat"

\* No call made on controller c passed an error.
ErrorFree(c) == \A k \in 1..Len(hist[c]) : NoError(hist[c][k].e)

\* Dispatch x is the one before dispatch y, was repeated by it.
IsRepeat(x, y) == y.func = x.func /\ y.repeatCount = x.repeatCount + 1
\* Dispatch y is of the callback after the one of dispatch x.
IsAdvance(x, y) == y.func = x.func + 1 /\ y.repeatCount = 0

\* The dispatches of callback f by manager m.
DispatchesOfTask(m, f) == SelectSeq(log, LAMBDA x : x.mgr = m /\ x.func = f)

\* C18: provided the Sequencer is tolerant or no error is passed, a task
\* that has requested repeat is dispatched again with a repeatCount one
\* higher, and a task that has not is followed by the next callback with
\* repeatCount 0; every controller carries the repeatCount of its dispatch.
\* A task that requests repeat exactly while its repeatCount is below R is
\* therefore dispatched R + 1 times in a row with repeatCount 0, 1, ..., R.
C18_RepeatCount ==
    \A m \in Mgrs :
        LET L == DispatchesOf(m)
        IN  /\ \A j \in 1..Len(L) :
                  /\ ctls[L[j].ctl].repeatCount = L[j].repeatCount
                  /\ j = 1 => L[j].func = 0 /\ L[j].repeatCount = 0
                  /\ j > 1 =>
                        LET c == L[j - 1].ctl
                        IN  IF Requested(c) /\ (mgrs[m].tolerance \/ ErrorFree(c))
                            THEN IsRepeat(L[j - 1], L[j])
                            ELSE IsAdvance(L[j - 1], L[j])
            /\ \A R \in 0..MaxRepeat : \A f \in 0..(NumTasks - 1) :
                  LET T == DispatchesOfTask(m, f)
                  IN  ( /\ mgrs[m].currentFunc > f
                        /\ \A i \in 1..Len(T) :
                              /\ Requested(T[i].ctl) <=> T[i].repeatCount < R
                              /\ mgrs[m].tolerance \/ ErrorFree(T[i].ctl) )
                      => /\ Len(T) = R + 1
                         /\ \A i \in 1..Len(T) : T[i].repeatCount = i - 1

\* C18 as stated, whatever errors the task passes.
C18_Original ==
    \A m \in Mgrs :
        LET L == DispatchesOf(m)
        IN  \A j \in 2..Len(L) :
                Requested(L[j - 1].ctl) => IsRepeat(L[j - 1], L[j])

\* The first task requested repeat while its repeatCount was below 2, was
\* dispatched with 0, 1 and 2, and the second task then with 0.
C18_Witness ==
    \E m \in Mgrs :
        LET L == DispatchesOf(m)
        IN  /\ Len(L) >= 4
            /\ \A j \in 1..3 : L[j].func = 0 /\ L[j].repeatCount = j - 1
            /\ Requested(L[1].ctl) /\ Requested(L[2].ctl)
            /\ ~Requested(L[3].ctl)
            /\ L[4].func = 1 /\ L[4].repeatCount = 0
            /\ ctls[L[4].ctl].repeatCount = 0

\* The task handed controller c set no counter, requested no repeat and
\* called next(null, x).
PlainNext(c) ==
    hist[c] # <<>> /\ hist[c][1].op = "next" /\ hist[c][1].e = Null

\* The callback dispatched by the call on c is the next one and received
\* null as its error and the one-element array [x] as its results.
ReceivedOne(c) ==
    LET D == DispatchesBy(c)
    IN  /\ Len(D) = 1
        /\ D[1].mgr = Own(c)
        /\ D[1].func = log[c].func + 1
        /\ D[1].errs = Null
        /\ D[1].res = Arr(<<hist[c][1].r>>)

\* C17: when a task that was dispatched by an advance (not as a repeat),
\* set no counter and requested no repeat calls next(null, x), the next
\* task receives null as its error and the one-element array [x] as its
\* results.
C17_NextPayload ==
    \A c \in FnCtls : (PlainNext(c) /\ log[c].repeatCount = 0) => ReceivedOne(c)

\* C17 as stated, for every task with no fan-out: refuted by a task that
\* was repeated, whose earlier next() values are still pending.
C17_Original ==
    \A c \in FnCtls : PlainNext(c) => ReceivedOne(c)

\* The first task called next(null, "r1") and the second task, a task
\* function, received null and ["r1"].
C17_Witness ==
    \E c \in FnCtls :
        /\ log[c].func = 0
        /\ hist[c] = <<Call("next", Null, Str("r1"), 0)>>
        /\ Len(DispatchesBy(c)) = 1
        /\ DispatchesBy(c)[1].kind = "fn"
        /\ DispatchesBy(c)[1].errs = Null
        /\ DispatchesBy(c)[1].res = Arr(<<Str("r1")>>)

\* The pending error buffer of manager m, once next(e, r) has pushed its
\* arguments, holds an error that is not null (nor undefined).
PendingError(m, e, r) ==
    LET errors1 == IF e.k # "undefined" \/ r.k # "undefined"
                   THEN Append(mgrs[m].errors, e)
                   ELSE mgrs[m].errors
    IN  \E i \in 1..Len(errors1) : ~NoError(errors1[i])

\* C19: at every advance with the repeat flag set, the task index stays
\* (and the repeat count goes up by one) if and only if the Sequencer is
\* tolerant or no error that is not null is pending; otherwise, and at
\* every advance with the flag not set, the index goes up by one.  The
\* repeat flag is false after every advance.
C19_RepeatDecision ==
    /\ \A m \in Mgrs : \A a \in NextArgs :
        LET M == mgrs[m]
            M2 == Mgr_next(State, m, a[1], a[2], Null).mgrs[m]
        IN  /\ ~M2.repeatNext
            /\ IF M.repeatNext /\ (M.tolerance \/ ~PendingError(m, a[1], a[2]))
               THEN /\ M2.currentFunc = M.currentFunc
                    /\ M2.repeatCount = M.repeatCount + 1
               ELSE /\ M2.currentFunc = M.currentFunc + 1
                    /\ M2.repeatCount = 0
    /\ \A m \in Mgrs :
          LET L == DispatchesOf(m)
          IN  \A j \in 2..Len(L) :
                 IsRepeat(L[j - 1], L[j]) \/ IsAdvance(L[j - 1], L[j])

\* A tolerant Sequencer has repeated its first task although an error was
\* passed, and the repeat flag is down again.
C19_Witness ==
    \E m \in Mgrs :
        /\ mgrs[m].tolerance
        /\ ~mgrs[m].repeatNext
        /\ mgrs[m].currentFunc = 0
        /\ mgrs[m].repeatCount = 1
        /\ mgrs[m].errors = <<Str("e1")>>
        /\ Len(DispatchesOf(m)) = 2

(***************************************************************************)
(* SpecLive: a sequence built with or without tolerance and with repeat    *)
(* absent or false, where every pending call is made eventually: the start *)
(* of the run, the next() of a dispatched task that sets no counter, the   *)
(* set(K) of one that fans out, and each of its K ticks.                   *)
(***************************************************************************)
InitLive ==
    InitWith({<<PlainSeq([tolerance |-> t, repeat |-> r])>> :
                 t \in {"undefined", "true"}, r \in {"undefined", "false"}})

LiveArgs == {<<Null, Str("r1")>>, <<Str("e1"), Str("r2")>>}

NextLive ==
    \/ D_Start(1)
    \/ \E c \in FnCtls, a \in FanNextArgs : D_Next(c, a[1], a[2])
    \/ \E c \in FnCtls, n \in 1..MaxCount : D_Set(c, n)
    \/ \E c \in FnCtls, a \in LiveArgs : D_Tick(c, a[1], a[2])

\* Some pending call is made as long as one is pending: the weakest
\* scheduling assumption, implied by running every pending callback.
Fairness == WF_vars(NextLive)

SpecLive == InitLive /\ [][NextLive]_vars /\ Fairness

\* The last declared task was dispatched and, after it, the completion
\* callback that execute() registered.
Completed ==
    \E i, j \in 1..Len(log) :
        /\ i < j
        /\ log[i].mgr = log[j].mgr
        /\ log[i].kind = "fn" /\ log[i].func = NumTasks - 1
        /\ log[j].kind = "cb" /\ log[j].func = NumTasks

\* C20: if every dispatched task calls next() with its counter at zero, or
\* sets a counter and has each counted completion call tick() once, and no
\* repeat is requested, the run eventually dispatches its last declared
\* task and then the completion callback registered by execute().
C20_Terminates == <>Completed

\* A run with a fan-out of two ticks, one of them with an error, has
\* dispatched its completion callback.
C20_Witness ==
    /\ Completed
    /\ \E c \in Fanned :
          /\ hist[c][1].n = 2
          /\ Len(TicksOf(c)) = 2
          /\ \E i \in 1..2 : Truthy(TicksOf(c)[i].e)

(***************************************************************************)
(* The counter.                                                            *)
(***************************************************************************)
\* Counts and amounts passed to set and inc: integers of either sign, and
\* values that are not numbers.
IntArgs == {Num(i) : i \in (0 - 1)..MaxCount} \cup {Undef, Null, Str("2")}

\* C21: with integer arguments the counter of every controller is never
\* negative: set() changes it to the count given if that is a positive
\* number and leaves it as it is otherwise, inc() adds the amount given if
\* that is a positive number and 1 otherwise, and tick() takes 1 off (or
\* sets it to zero) only when it is positive.
C21_CounterNonNegative ==
    \A c \in Ctls :
        /\ ctls[c].count >= 0
        /\ \A v \in IntArgs :
              LET n == Ctl_set(State, c, [count |-> v, repeat |-> "undefined",
                                          tolerance |-> "undefined"]).ctls[c].count
                  i == Ctl_inc(State, c, v).ctls[c].count
              IN  /\ n = (IF v.k = "number" /\ v.n > 0 THEN v.n ELSE ctls[c].count)
                  /\ i = ctls[c].count + (IF v.k = "number" /\ v.n > 0 THEN v.n ELSE 1)
        /\ \A a \in TickArgs :
              LET t == Ctl_tick(State, c, 2, a[1], a[2], Undef).ctls[c].count
              IN  IF ctls[c].count > 0
                  THEN t \in {ctls[c].count - 1, 0}
                  ELSE t = 0

\* A counter was raised by set() or inc(), lowered by tick(), and is still
\* positive.
C21_Witness ==
    \E c \in Ctls :
        /\ ctls[c].count = 1
        /\ Len(mgrs[Own(c)].results) = 1
        /\ c \notin fired
        /\ calls = 3

\* C22: tick(error, result), called with no index, appends the pair to the
\* pending buffers: while the K ticks of a fan-out arrive the buffers hold
\* the pairs that have arrived, in arrival order, and when no tick has cut
\* the fan-out short the next task receives the K results in arrival
\* order, whatever the error values are, numbers included.
C22_ArrivalOrder ==
    \A c \in Fanned :
        LET T == TicksOf(c)
            D == DispatchesBy(c)
            M == mgrs[Own(c)]
        IN  (ctls[c].tolerance \/ \A i \in 1..Len(T) : ~Truthy(T[i].e)) =>
               /\ Len(D) = 0 =>
                     /\ M.errors = [i \in 1..Len(T) |-> T[i].e]
                     /\ M.results = [i \in 1..Len(T) |-> T[i].r]
               /\ Len(D) = 1 =>
                     D[1].res = Arr([i \in 1..Len(T) |-> T[i].r])

(***************************************************************************)
(* The tolerance of a controller and the tolerance of its manager          *)
(***************************************************************************)
\* set(1, repeat, tolerance) and set({repeat, tolerance}) with a tolerance
\* given.
TolConfigs ==
    [count : {Undef, Num(1)}, repeat : Tri, tolerance : {"true", "false"}]

\* The controllers that state S has and the current state has not.
NewCtls(S) == (Len(ctls) + 1)..Len(S.ctls)

\* C23: a tolerance given to set() on a controller becomes the tolerance of
\* that controller and of nothing else: the manager's tolerance stays the
\* one the sequence was built with and the other controllers keep theirs;
\* a controller created afterwards starts with the manager's tolerance, and
\* the advance made by next() on the controller repeats the task if and
\* only if repeat is requested and the manager is tolerant or no error is
\* pending, whatever the controller's tolerance.
C23_ToleranceLocal ==
    /\ \A m \in Mgrs :
          mgrs[m].tolerance = (seqs[1].options.tolerance = "true")
    /\ \A c \in Ctls : \A config \in TolConfigs :
          LET m == ctls[c].manager
              S2 == Ctl_set(State, c, config)
          IN  /\ S2.mgrs[m].tolerance = mgrs[m].tolerance
              /\ S2.ctls[c].tolerance = (config.tolerance = "true")
              /\ \A c2 \in Ctls \ {c} : S2.ctls[c2] = ctls[c2]
              /\ \A a \in NextArgs :
                    LET S3 == Ctl_next(S2, c, a[1], a[2])
                        advanced == \/ S2.ctls[c].count = 0
                                    \/ ~S2.ctls[c].tolerance /\ Truthy(a[1])
                    IN  /\ S3.mgrs[m].tolerance = mgrs[m].tolerance
                        /\ \A c3 \in NewCtls(S3) :
                              S3.ctls[c3].tolerance = mgrs[m].tolerance
                        /\ advanced =>
                              ( S3.mgrs[m].currentFunc = mgrs[m].currentFunc
                                <=> /\ S2.mgrs[m].repeatNext
                                    /\ \/ mgrs[m].tolerance
                                       \/ ~PendingError(m, a[1], a[2]) )
                        /\ ~advanced => S3.mgrs[m] = S2.mgrs[m]

\* A task of an intolerant sequence made its controller tolerant and then
\* advanced: the controller of the task it dispatched is intolerant.
C23_Witness ==
    \E c \in Ctls : \E c2 \in Ctls :
        /\ ~mgrs[Own(c)].tolerance
        /\ ctls[c].tolerance
        /\ c \in fired
        /\ c2 > c
        /\ log[c2].by = c
        /\ Own(c2) = Own(c)
        /\ ~ctls[c2].tolerance

(***************************************************************************)
(* SpecEarlyNext: SpecTolerance, where one completion of the task that     *)
(* fans out calls next(e, r) instead of tick(e, r).                        *)
(***************************************************************************)
EarlyArgs == {<<Null, Str("r1")>>, <<Str("e1"), Str("r2")>>}
EarlyNextArgs == {<<Undef, Undef>>, <<Null, Str("r3")>>, <<Str("e2"), Str("r3")>>}

NextEarlyNext ==
    \/ D_Start(1)
    \/ \E c \in FnCtls, a \in FanNextArgs : D_Next(c, a[1], a[2])
    \/ \E c \in FnCtls, n \in 1..MaxCount, t \in Tri : D_SetTol(c, n, t)
    \/ \E c \in FnCtls, a \in EarlyArgs : D_Tick(c, a[1], a[2])
    \/ \E c \in FnCtls, a \in EarlyNextArgs : D_EarlyNext(c, a[1], a[2])

SpecEarlyNext == InitFanout /\ [][NextEarlyNext]_vars

\* The tick calls made on controller c.
TickCalls(c) == SelectSeq(hist[c], LAMBDA x : x.op = "tick")

\* C24: while the counter of a controller is greater than zero, next(e, r)
\* on it changes nothing at all when e is not truthy or the controller is
\* tolerant: nothing is dispatched and e and r are recorded nowhere.  When
\* the controller is intolerant and e is truthy, the counter becomes 0 and
\* the manager advances at once: the next callback is dispatched with the
\* pending pairs followed by (e, r), and the buffers are empty afterwards.
\* Hence, without such an error, the buffers and the next task see the
\* pairs of the ticks only.
C24_EarlyNext ==
    /\ \A c \in Fanned : \A a \in EarlyNextArgs \cup EarlyArgs :
          LET m == Own(c)
              S2 == Ctl_next(State, c, a[1], a[2])
          IN  ctls[c].count > 0 =>
                 IF ~Truthy(a[1]) \/ ctls[c].tolerance
                 THEN S2 = State
                 ELSE /\ S2.ctls[c].count = 0
                      /\ Len(S2.log) = Len(log) + 1
                      /\ S2.log[Len(S2.log)].mgr = m
                      /\ S2.log[Len(S2.log)].func = mgrs[m].currentFunc + 1
                      /\ S2.log[Len(S2.log)].errs =
                            Arr(Append(mgrs[m].errors, a[1]))
                      /\ S2.log[Len(S2.log)].res =
                            Arr(Append(mgrs[m].results, a[2]))
                      /\ S2.mgrs[m].errors = <<>>
                      /\ S2.mgrs[m].results = <<>>
    /\ \A c \in Fanned :
          LET T == TickCalls(c)
              D == DispatchesBy(c)
              M == mgrs[Own(c)]
          IN  (ctls[c].tolerance
                 \/ \A k \in 2..Len(hist[c]) : ~Truthy(hist[c][k].e)) =>
                 /\ Len(D) = (IF Len(T) = hist[c][1].n THEN 1 ELSE 0)
                 /\ Len(D) = 0 =>
                       /\ ctls[c].count = hist[c][1].n - Len(T)
                       /\ M.errors = [i \in 1..Len(T) |-> T[i].e]
                       /\ M.results = [i \in 1..Len(T) |-> T[i].r]
                 /\ Len(D) = 1 =>
                       D[1].res = Arr([i \in 1..Len(T) |-> T[i].r])

\* A tolerant controller set to 2 got next(e, r) with an error and then a
\* tick: the counter is 1, nothing was dispatched, and the buffers hold
\* the pair of the tick only.
C24_Witness ==
    \E c \in Fanned :
        /\ ctls[c].tolerance
        /\ hist[c][1].n = 2
        /\ Len(hist[c]) = 3
        /\ hist[c][2] = Call("next", Str("e2"), Str("r3"), 0)
        /\ hist[c][3] = Call("tick", Null, Str("r1"), 0)
        /\ ctls[c].count = 1
        /\ Len(DispatchesBy(c)) = 0
        /\ mgrs[Own(c)].results = <<Str("r1")>>

(***************************************************************************)
(* The error argument of a task                                            *)
(***************************************************************************)
\* The pending error buffer of manager m once next(e, r) has pushed its
\* arguments.
ErrorsAtNext(m, e, r) ==
    IF e.k # "undefined" \/ r.k # "undefined"
    THEN Append(mgrs[m].errors, e)
    ELSE mgrs[m].errors

\* C25: when an advance of a manager moves to a new callback, the error
\* argument of that callback is null if and only if every entry of the
\* pending error buffer (the arguments of the advance included) is null or
\* undefined, the empty buffer included; otherwise it is the array of the
\* recorded errors, entry by entry.  Both buffers are empty after the
\* dispatch.
C25_ErrorArgument ==
    /\ \A m \in Mgrs : \A a \in NextArgs \cup TickArgs :
          LET S2 == Mgr_next(State, m, a[1], a[2], Null)
              E == ErrorsAtNext(m, a[1], a[2])
              empty == \A i \in 1..Len(E) : E[i].k \in {"null", "undefined"}
          IN  S2.mgrs[m].currentFunc = mgrs[m].currentFunc + 1 =>
                 /\ S2.mgrs[m].errors = <<>>
                 /\ S2.mgrs[m].results = <<>>
                 /\ Len(S2.log) > Len(log) =>
                       LET x == S2.log[Len(log) + 1]
                       IN  /\ x.mgr = m
                           /\ x.func = mgrs[m].currentFunc + 1
                           /\ x.errs = Null <=> empty
                           /\ ~empty => x.errs = Arr(E)
    /\ \A j \in 1..Len(log) :
          log[j].repeatCount = 0 /\ log[j].func > 0 =>
              \/ log[j].errs = Null
              \/ /\ log[j].errs.k = "array"
                 /\ \E i \in 1..Len(log[j].errs.a) :
                       log[j].errs.a[i].k \notin {"null", "undefined"}

\* A task was dispatched with the error array [0]: the error 0 is neither
\* null nor undefined.  The buffers of its manager are empty.
C25_Witness ==
    \E j \in 1..Len(log) :
        /\ log[j].func = 1
        /\ log[j].repeatCount = 0
        /\ log[j].errs = Arr(<<Num(0)>>)
        /\ mgrs[log[j].mgr].errors = <<>>
        /\ mgrs[log[j].mgr].results = <<>>

(***************************************************************************)
(* Baggage                                                                 *)
(***************************************************************************)
\* The dispatches that state S has and state S0 has not.
NewDispatches(S0, S) ==
    {S.log[j] : j \in (Len(S0.log) + 1)..Len(S.log)}

\* The controllers that state S has and state S0 has not.
CtlsAfter(S0, S) == (Len(S0.ctls) + 1)..Len(S.ctls)

\* C26: every callback dispatched by next() or tick() on a controller gets
\* as baggage the value last given to setBaggage() on that controller, or
\* null if there was none, a repeated task included; setBaggage() changes
\* nothing else.  The controller created for the dispatch starts with the
\* baggage null, so that the callback it dispatches in turn gets null.
C26_Baggage ==
    /\ \A c \in Ctls :
          ctls[c].baggage \in {Null} \cup BagVals
    /\ \A j \in 1..Len(log) :
          log[j].by # 0 /\ ctls[log[j].by].baggage = Null =>
              log[j].baggage = Null
    /\ \A c \in Ctls : \A b \in BagVals :
          Ctl_setBaggage(State, c, b) =
              [State EXCEPT !.ctls = [ctls EXCEPT ![c].baggage = b]]
    /\ \A c \in Ctls : \A b \in BagVals \cup {ctls[c].baggage} :
       \A a \in NextArgs :
          LET S1 == Ctl_setBaggage(State, c, b)
              S2 == Ctl_next(S1, c, a[1], a[2])
              S3 == Ctl_tick(S1, c, 2, a[1], a[2], Undef)
          IN  /\ \A x \in NewDispatches(S1, S2) \cup NewDispatches(S1, S3) :
                    x.baggage = b
              /\ \A c2 \in CtlsAfter(S1, S2) :
                    /\ S2.ctls[c2].baggage = Null
                    /\ \A x \in NewDispatches(S2,
                                   Ctl_next(S2, c2, a[1], a[2])) :
                          x.baggage = Null

\* A task started without baggage called setBaggage("b1") and requested
\* repeat: its second attempt got "b1" where the first got undefined.
C26_Witness ==
    /\ Len(log) >= 2
    /\ log[1].func = 0 /\ log[1].baggage = Undef
    /\ log[2].func = 0 /\ log[2].repeatCount = 1
    /\ log[2].by = 1
    /\ log[2].baggage = Str("b1")
    /\ ctls[2].baggage = Null

(***************************************************************************)
(* SpecThrow: a sequence of three tasks, built with or without tolerance   *)
(* and started standalone, one of whose tasks throws as soon as it is      *)
(* dispatched; the tasks before it call next once, or set(K) and have      *)
(* tick called K times.                                                    *)
(***************************************************************************)
ThrowAt(i) == [j \in 1..3 |-> IF j = i THEN Throw ELSE Fn]

InitThrow ==
    InitWith({<<[callbacks |-> ThrowAt(i),
                 options |-> [tolerance |-> t, repeat |-> "undefined"]]>> :
                 i \in 1..3, t \in {"undefined", "true"}})

NextThrow ==
    \/ D_Start(1)
    \/ \E c \in FnCtls, a \in FanNextArgs : D_Next(c, a[1], a[2])
    \/ \E c \in FnCtls, n \in 1..MaxCount : D_Set(c, n)
    \/ \E c \in FnCtls, a \in EarlyArgs : D_Tick(c, a[1], a[2])

SpecThrow == InitThrow /\ [][NextThrow]_vars

\* C27: a task that throws when it is dispatched is dispatched once: it is
\* the last dispatch of its run, the task index of its manager stays at
\* it, neither it nor the task after it is dispatched afterwards, and the
\* API call that caused the dispatch has done nothing after it; under
\* tolerance as well as without.
C27_ThrowStops ==
    \A j \in 1..Len(log) :
        log[j].kind = "throw" =>
            LET m == log[j].mgr
            IN  /\ j = Len(log)
                /\ mgrs[m].currentFunc = log[j].func
                /\ \A k \in 1..Len(log) :
                      k # j /\ log[k].mgr = m => log[k].func < log[j].func
                /\ seqs[1].callbacks[log[j].func + 1] = Throw
                /\ hist[log[j].ctl] = <<>>

\* The second task of a tolerant sequence threw when the last of two ticks
\* of the first task dispatched it.
C27_Witness ==
    /\ Len(log) = 2
    /\ log[2].kind = "throw"
    /\ log[2].by = 1
    /\ mgrs[1].tolerance
    /\ Len(hist[1]) = 3
    /\ hist[1][3].op = "tick"
    /\ mgrs[1].currentFunc = 1

(***************************************************************************)
(* The older variant of the engine (src/unnamed/part_000, lines 1-309).    *)
(* Its constructor, set, store and compact, and the set, tick and next of  *)
(* its controller, are those of flow.js without the baggage; its           *)
(* SerialManager.next unwraps the error and passes the controller last.    *)
(***************************************************************************)
\* Mutant: the aggregated error is never unwrapped.
Unwrap_never(tolerance, errs) == errs

\* if (!this.tolerance && errs && errs[0]) { errs = errs[0]; }, where errs
\* is null, undefined or an array.
Unwrap(tolerance, errs) ==
    IF /\ ~tolerance
       /\ errs.k = "array"
       /\ Len(errs.a) > 0
       /\ Truthy(errs.a[1])
    THEN errs.a[1]
    ELSE errs

\* new ControlHelper({manager: m, tolerance: tolerance}) of the variant
ControlHelper_part000(m, tolerance) ==
    [manager |-> m, tolerance |-> tolerance, count |-> 0, repeatCount |-> 0]

\* SerialManager.prototype.next of the variant.  The dispatch is logged
\* with the aggregate kept in lastArgs (agg) and the arguments the callback
\* is applied to (args).  The callbacks are task functions of the user and
\* the completion callback of a standalone run, which does nothing.
Mgr_next_part000(S, m, error, result) ==
    LET M0 == S.mgrs[m]
        push == error.k # "undefined" \/ result.k # "undefined"
        errors1 == IF push THEN Append(M0.errors, error) ELSE M0.errors
        results1 == IF push THEN Append(M0.results, result) ELSE M0.results
        errs0 == compact(errors1)
        rep == RepeatDecision(M0, errs0)
        errs1 == IF rep THEN M0.lastArgs[1] ELSE errs0
        res == IF rep THEN M0.lastArgs[2] ELSE Arr(results1)
        M1 == IF rep
              THEN [M0 EXCEPT !.errors = errors1, !.results = results1,
                              !.repeatCount = @ + 1, !.repeatNext = FALSE]
              ELSE [M0 EXCEPT !.errors = <<>>, !.results = <<>>,
                              !.currentFunc = @ + 1,
                              !.repeatCount = 0, !.repeatNext = FALSE]
        f == M1.currentFunc
    IN  IF f >= 0 /\ f < Len(M1.callbacks)
        THEN LET M2 == [M1 EXCEPT !.lastArgs = <<errs1, res>>]
                 errs == Unwrap(M2.tolerance, errs1)
                 c == Len(S.ctls) + 1
                 mgr == [ControlHelper_part000(m, M2.tolerance)
                            EXCEPT !.repeatCount = M2.repeatCount]
                 args == IF f = 0 /\ errs.k \in {"undefined", "null"}
                                  /\ result.k = "undefined"
                         THEN <<CtlObj(c)>>
                         ELSE <<errs, res, CtlObj(c)>>
             IN  [S EXCEPT
                    !.mgrs = [@ EXCEPT ![m] = M2],
                    !.ctls = Append(@, mgr),
                    !.log = Append(@,
                        [mgr |-> m, func |-> f, ctl |-> c,
                         kind |-> M2.callbacks[f + 1].kind,
                         agg |-> errs1, args |-> args,
                         repeatCount |-> M2.repeatCount, by |-> 0])]
        ELSE [S EXCEPT !.mgrs = [@ EXCEPT ![m] = M1]]

\* executeTasks(errorsParent, resultsParent) of the variant, standalone:
\* parallelMgr is undefined.
flowCall_part000(S, d, errorsParent, resultsParent) ==
    LET m == Len(S.mgrs) + 1
        manager == SerialManager(seqs[d].callbacks, seqs[d].options)
        M == [manager EXCEPT !.callbacks = Append(@, Cb(0))]
    IN  Mgr_next_part000([S EXCEPT !.mgrs = Append(@, M)], m,
                         errorsParent, resultsParent)

\* ControlHelper.prototype.next of the variant
Ctl_next_part000(S, c, error, result) ==
    LET C0 == S.ctls[c]
        C1 == IF ~C0.tolerance /\ Truthy(error)
              THEN [C0 EXCEPT !.count = 0]
              ELSE C0
        S1 == [S EXCEPT !.ctls[c] = C1]
    IN  IF C1.count = 0
        THEN Mgr_next_part000([S1 EXCEPT !.fired = @ \cup {c}],
                              C1.manager, error, result)
        ELSE S1

(***************************************************************************)
(* SpecPart000: a sequence of the variant, built with or without tolerance *)
(* and started standalone with or without an error; every task calls       *)
(* next(e, r) once, after set({repeat: true}) or not.                      *)
(***************************************************************************)
StartArgs == {<<Undef, Undef>>, <<Str("e0"), Undef>>, <<Null, Str("r0")>>}
VariantArgs == {<<Undef, Undef>>, <<Null, Str("r1")>>, <<Str("e1"), Str("r2")>>}

V_Start(d, e, r) ==
    /\ mgrs = <<>>
    /\ Commit(flowCall_part000(State, d, e, r), 0)
    /\ UNCHANGED <<hist, calls>>

\* A task that has called nothing yet and has been repeated fewer than
\* MaxRepeat times calls set({repeat: true}).
V_SetRepeat(c) ==
    /\ hist[c] = <<>>
    /\ ctls[c].repeatCount < MaxRepeat
    /\ Commit(Ctl_set(State, c, RepeatConfig(0)), c)
    /\ hist' = [hist EXCEPT ![c] = <<Call("repeat", Undef, Undef, 0)>>]
    /\ UNCHANGED calls

\* A task that has not called next yet calls next(e, r).
V_Next(c, e, r) ==
    /\ hist[c] \in {<<>>, <<Call("repeat", Undef, Undef, 0)>>}
    /\ Commit(Ctl_next_part000(State, c, e, r), c)
    /\ hist' = [hist EXCEPT ![c] = Append(@, Call("next", e, r, 0))]
    /\ UNCHANGED calls

NextPart000 ==
    \/ \E a \in StartArgs : V_Start(1, a[1], a[2])
    \/ \E c \in FnCtls : V_SetRepeat(c)
    \/ \E c \in FnCtls, a \in VariantArgs : V_Next(c, a[1], a[2])

SpecPart000 == InitFanout /\ [][NextPart000]_vars

\* The aggregate x holds a truthy error in its first slot.
FirstSlotError(x) == x.k = "array" /\ Len(x.a) > 0 /\ Truthy(x.a[1])

\* C28: in the variant, a task of an intolerant sequence whose aggregated
\* error array holds a truthy error in its first slot is applied to that
\* error alone, in place of the array, while lastArgs keeps the array; a
\* repeat of the task has the same aggregate and is applied to the same
\* single error again.  Any other task is applied to the aggregate as it
\* is, or to its controller alone.
C28_Unwrapped ==
    \A m \in Mgrs :
        LET L == DispatchesOf(m)
        IN  /\ \A j \in 1..Len(L) :
                  /\ IF ~mgrs[m].tolerance /\ FirstSlotError(L[j].agg)
                     THEN /\ Len(L[j].args) = 3
                          /\ L[j].args[1] = L[j].agg.a[1]
                          /\ L[j].args[1].k # "array"
                     ELSE \/ L[j].args = <<CtlObj(L[j].ctl)>>
                          \/ Len(L[j].args) = 3 /\ L[j].args[1] = L[j].agg
                  /\ j > 1 /\ IsRepeat(L[j - 1], L[j]) =>
                        /\ L[j].agg = L[j - 1].agg
                        /\ FirstSlotError(L[j].agg) =>
                              L[j].args = [L[j - 1].args EXCEPT
                                              ![3] = CtlObj(L[j].ctl)]
            /\ Len(L) > 0 => mgrs[m].lastArgs[1] = L[Len(L)].agg

\* The second task of an intolerant sequence was applied to the error
\* "e1" that the first task passed, asked for a repeat, and was applied to
\* "e1" again, while lastArgs holds the array ["e1"].
C28_Witness ==
    \E m \in Mgrs :
        LET L == DispatchesOf(m)
        IN  /\ ~mgrs[m].tolerance
            /\ Len(L) = 3
            /\ L[2].func = 1 /\ L[2].args[1] = Str("e1")
            /\ L[3].func = 1 /\ L[3].repeatCount = 1
            /\ L[3].args[1] = Str("e1")
            /\ mgrs[m].lastArgs[1] = Arr(<<Str("e1")>>)

(***************************************************************************)
(* SpecRepeatFan: a sequence built with or without tolerance and started   *)
(* standalone; its first task calls next(e, r), or calls set(K) and has    *)
(* tick called K times, or requests repeat with set(K, true) and has tick  *)
(* called K times; the other tasks call next(e, r).                        *)
(***************************************************************************)
\* The controllers handed to the attempts of the first task.
FirstTaskCtls == {c \in FnCtls : log[c].func = 0}

NextRepeatFan ==
    \/ D_Start(1)
    \/ \E c \in FnCtls, a \in RepeatArgs : D_Next(c, a[1], a[2])
    \/ \E c \in FirstTaskCtls, n \in 1..MaxCount : D_Set(c, n)
    \/ \E c \in FirstTaskCtls, a \in RepeatArgs : D_Tick(c, a[1], a[2])
    \/ \E c \in FirstTaskCtls, n \in 1..MaxCount : D_SetRepeat(c, n)
    \/ \E c \in FirstTaskCtls, a \in RepeatArgs : D_TickAfter(c, a[1], a[2])

SpecRepeatFan == InitFanout /\ [][NextRepeatFan]_vars

\* The calls on controller c that record a pair: its ticks and its next.
Recorded(c) == SelectSeq(hist[c], LAMBDA x : x.op \in {"tick", "next"})

\* The pairs recorded by the first n of the attempts T of a task, in order.
RECURSIVE RecordedBy(_, _)
RecordedBy(T, n) ==
    IF n = 0 THEN <<>> ELSE RecordedBy(T, n - 1) \o Recorded(T[n].ctl)

\* No attempt in T has passed an error.
NoErrorIn(T) ==
    \A i \in 1..Len(T) : \A k \in 1..Len(hist[T[i].ctl]) :
        ~Truthy(hist[T[i].ctl][k].e)

\* C29: the pending buffers are emptied when the task index moves on and
\* at no repeat.  While a task is the current one the buffers hold the
\* pairs recorded by all of its attempts so far, an error of an earlier
\* attempt included; the task dispatched after it receives the results of
\* all the attempts, in order: (R + 1) * K of them after R repeats of a
\* fan-out of K ticks.  (Stated for a tolerant sequence, or for attempts
\* that pass no error: an error cuts an attempt of an intolerant one short.)
C29_BuffersKept ==
    \A m \in Mgrs : \A f \in 0..(NumTasks - 1) :
        LET T == DispatchesOfTask(m, f)
            P == RecordedBy(T, Len(T))
            D == DispatchesOfTask(m, f + 1)
        IN  (Len(T) > 0 /\ (mgrs[m].tolerance \/ NoErrorIn(T))) =>
               /\ mgrs[m].currentFunc = f =>
                     /\ mgrs[m].errors = [i \in 1..Len(P) |-> P[i].e]
                     /\ mgrs[m].results = [i \in 1..Len(P) |-> P[i].r]
               /\ Len(D) > 0 =>
                     /\ D[1].res = Arr([i \in 1..Len(P) |-> P[i].r])
                     /\ D[1].errs = compact([i \in 1..Len(P) |-> P[i].e])
                     /\ \A K \in 1..MaxCount :
                           (\A i \in 1..Len(T) : hist[T[i].ctl][1].n = K)
                              => Len(D[1].res.a) = Len(T) * K

\* The first task of a tolerant sequence ran a fan-out of 2 twice, with an
\* error in the first attempt; the error is pending with all 4 pairs at
\* the end of the second attempt, and the second task received 4 results.
C29_Witness ==
    \E m \in Mgrs :
        LET T == DispatchesOfTask(m, 0)
            D == DispatchesOfTask(m, 1)
        IN  /\ Len(T) = 2
            /\ Len(hist[T[1].ctl]) = 3
            /\ hist[T[1].ctl][1] = Call("repeat", Undef, Undef, 2)
            /\ hist[T[1].ctl][2].e = Str("e1")
            /\ Len(hist[T[2].ctl]) = 3
            /\ hist[T[2].ctl][1] = Call("set", Undef, Undef, 2)
            /\ Len(D) = 1
            /\ Len(D[1].res.a) = 4
            /\ D[1].errs.k = "array"
            /\ D[1].errs.a[1] = Str("e1")

(***************************************************************************)
(* SpecEmptyParallel: SpecParallel, where the task that calls parallel     *)
(* may pass the count 0 or an empty array, in each form of the argument,   *)
(* and may then call next itself.                                          *)
(***************************************************************************)
EmptyArgs ==
    {PNum(0), PArr(<<>>), PObj(Num(0), Undef, "undefined", "undefined"),
     PObj(Undef, Arr(<<>>), "undefined", "undefined")}

NextEmptyParallel ==
    \/ D_Start(1)
    \/ \E c \in FnCtls, a \in FanNextArgs : D_Next(c, a[1], a[2])
    \/ \E c \in FnCtls, p \in EmptyArgs \cup {PNum(n) : n \in 1..MaxCount} :
          D_Parallel(c, p)
    \/ \E u \in Units, a \in DoneArgs : D_Done(u, a[1], a[2])
    \/ \E c \in FnCtls, a \in FanNextArgs : D_NextAfterEmpty(c, a[1], a[2])

SpecEmptyParallel == InitFanout /\ [][NextEmptyParallel]_vars

\* C30: parallel() with the count 0 or an empty array changes nothing: no
\* worker is called, the counter stays 0 and nothing is dispatched.  The
\* task that made the call stays the current one, and its dispatch the
\* last one, until it calls next() itself, which dispatches the next
\* callback as the next() of any other task does.
C30_EmptyParallel ==
    /\ \A c \in FnCtls : \A p \in EmptyArgs :
          hist[c] = <<>> => Ctl_parallel(State, c, p) = State
    /\ \A c \in Paralleled :
          hist[c][1].n = 0 =>
              /\ \A u \in Units : units[u].scope # c
              /\ ctls[c].count = 0
              /\ Len(DispatchesBy(c)) = Len(hist[c]) - 1
              /\ Len(hist[c]) = 1 =>
                    /\ mgrs[Own(c)].currentFunc = log[c].func
                    /\ c = Len(log)
                    /\ c \notin fired
              /\ Len(hist[c]) = 2 =>
                    /\ DispatchesBy(c)[1].func = log[c].func + 1
                    /\ DispatchesBy(c)[1].mgr = Own(c)

\* The last task of a sequence has called parallel([], worker): no unit
\* exists, and the completion callback has not been dispatched.
C30_Witness ==
    \E c \in Paralleled :
        /\ hist[c] = <<Call("parallel", Undef, Undef, 0)>>
        /\ log[c].func = NumTasks - 1
        /\ units = <<>>
        /\ ctls[c].count = 0
        /\ \A j \in 1..Len(log) : log[j].kind # "cb"

====
